---- MODULE Spec2Model ----
(***************************************************************************)
(* Item store and cart store of the shop API.                              *)
(*                                                                         *)
(*   hw2   the in-memory store: two Python dicts (items_data, carts_data)  *)
(*         and one id generator shared by both stores.                     *)
(*   hw45  the relational store: tables items, carts and cart_items,       *)
(*         reached through SQLAlchemy sessions.                            *)
(*                                                                         *)
(* A Python dict keeps its keys in insertion order, and both get_many      *)
(* functions iterate in that order, so a dict is modelled as a sequence of *)
(* records carrying their key in the field id.  Prices are floats in the   *)
(* source; the model uses whole numbers of currency units, on which float  *)
(* arithmetic is exact.  An optional string or number is a tuple, empty   *)
(* for None (NoneStr, NoneNum) and <<x>> for the value x; None in place of *)
(* an entity is NoneEntity.                                                *)
(***************************************************************************)
EXTENDS Integers, Sequences, FiniteSets, TLC

VARIABLES
    backend,       \* which store implementation this run exercises
    id_generator,  \* hw2: the next value the shared generator yields
    items_data,    \* hw2: item_queries.items_data
    carts_data,    \* hw2: cart_queries.carts_data
    db,            \* hw45: the database
    ret,           \* the last store call: its name, arguments and result
    issued,        \* the add and add_empty calls so far with the ids they gave
    steps,         \* the number of store calls made so far
    txn,           \* hw45: the store calls that are running in a transaction
    held,          \* hw2: a cart entity a caller holds from an earlier call
    iter            \* the generator a get_many call returned, while it is in use

vars ==
    <<backend, id_generator, items_data, carts_data, db, ret, issued, steps, txn, held,
      iter>>

(***************************************************************************)
(* Bounds of the model.                                                    *)
(***************************************************************************)
MaxId == 2        \* add and add_empty stop once the next id exceeds MaxId
MaxQty == 3       \* add_item stops at this quantity of a line
MaxLines == 3     \* add_item stops at this number of lines of a cart
MaxSteps == 4     \* longest sequence of store calls
MaxBetween == 1   \* store calls made while a generator is in use

\* Optional[T]: None is the empty tuple and a value x is the tuple <<x>>, so
\* that no value of T stands for None.
NoneStr == <<>>
NoneNum == <<>>
Some(x) == <<x>>
OrElse(o, default) == IF o = <<>> THEN default ELSE o[1]

\* The id field of a call or transaction that has no id.
NoId == 0 - 1
NoneEntity == [none |-> TRUE]

(***************************************************************************)
(* Python dict with insertion order, as a sequence of records with an id.  *)
(***************************************************************************)
DictHas(d, id) == \E k \in 1..Len(d) : d[k].id = id

DictIndex(d, id) == CHOOSE k \in 1..Len(d) : d[k].id = id

DictGet(d, id) == d[DictIndex(d, id)]

\* d[id] = rec: an existing key keeps its position, a new key goes last.
DictSet(d, id, rec) ==
    IF DictHas(d, id) THEN [d EXCEPT ![DictIndex(d, id)] = rec]
    ELSE Append(d, rec)

DictKeys(d) == {d[k].id : k \in 1..Len(d)}

(***************************************************************************)
(* hw2 item store: item_queries.py                                         *)
(***************************************************************************)
ItemInfo(name, price, deleted) ==
    [name |-> name, price |-> price, deleted |-> deleted]

ItemRow(id, info) ==
    [id |-> id, name |-> info.name, price |-> info.price, deleted |-> info.deleted]

ItemEntity(id, info) == [id |-> id, info |-> info]

InfoOfRow(row) == ItemInfo(row.name, row.price, row.deleted)

\* Mutant: add that does not advance the generator.
item_queries_add_same_id(gen, data, info) ==
    [gen |-> gen, data |-> DictSet(data, gen, ItemRow(gen, info)),
     res |-> ItemEntity(gen, info)]

\* add: takes the next id of the generator and stores the record under it.
item_queries_add(gen, data, info) ==
    [gen |-> gen + 1, data |-> DictSet(data, gen, ItemRow(gen, info)),
     res |-> ItemEntity(gen, info)]

\* Mutant: delete that leaves the record as it is.
item_queries_delete_noop(data, id) == data

\* delete: the soft delete; an absent id is left alone.
item_queries_delete(data, id) ==
    IF DictHas(data, id)
    THEN [data EXCEPT ![DictIndex(data, id)].deleted = TRUE]
    ELSE data

\* Mutant: get_one that does not look at the deleted flag.
item_queries_get_one_any(data, id) ==
    IF ~DictHas(data, id) THEN NoneEntity
    ELSE [id |-> id, info |-> [name |-> DictGet(data, id).name,
                               price |-> DictGet(data, id).price,
                               deleted |-> DictGet(data, id).deleted]]

\* get_one: None for an absent or soft-deleted id.
item_queries_get_one(data, id) ==
    IF ~DictHas(data, id) \/ DictGet(data, id).deleted THEN NoneEntity
    ELSE ItemEntity(id, InfoOfRow(DictGet(data, id)))

\* Mutant: update that does not look at the deleted flag.
item_queries_update_any(data, id, info) ==
    IF ~DictHas(data, id)
    THEN [data |-> data, res |-> NoneEntity]
    ELSE [data |-> DictSet(data, id, ItemRow(id, info)),
          res |-> ItemEntity(id, info)]

\* update: refuses an absent or soft-deleted id, else overwrites the record.
item_queries_update(data, id, info) ==
    IF ~DictHas(data, id) \/ DictGet(data, id).deleted
    THEN [data |-> data, res |-> NoneEntity]
    ELSE [data |-> DictSet(data, id, ItemRow(id, info)),
          res |-> ItemEntity(id, info)]

\* Mutant: upsert that leaves a soft-deleted record alone.
item_queries_upsert_active(data, id, info) ==
    IF DictHas(data, id) /\ DictGet(data, id).deleted
    THEN [data |-> data, res |-> ItemEntity(id, info)]
    ELSE [data |-> DictSet(data, id, ItemRow(id, info)), res |-> ItemEntity(id, info)]

\* upsert: stores the record whatever was there.
item_queries_upsert(data, id, info) ==
    [data |-> DictSet(data, id, ItemRow(id, info)), res |-> ItemEntity(id, info)]

\* Mutant: patch that does not look at the deleted flag.
item_queries_patch_any(data, id, patch_info) ==
    IF ~DictHas(data, id)
    THEN [data |-> data, res |-> NoneEntity]
    ELSE LET old == DictGet(data, id)
             new == [old EXCEPT
                       !.name = IF patch_info.name # NoneStr
                                THEN patch_info.name[1] ELSE @,
                       !.price = IF patch_info.price # NoneNum
                                 THEN patch_info.price[1] ELSE @]
         IN [data |-> DictSet(data, id, new),
             res |-> ItemEntity(id, InfoOfRow(new))]

\* Mutant: patch that writes both fields, supplied or not.
item_queries_patch_all(data, id, patch_info) ==
    IF ~DictHas(data, id) \/ DictGet(data, id).deleted
    THEN [data |-> data, res |-> NoneEntity]
    ELSE LET old == DictGet(data, id)
             new == [old EXCEPT !.name = OrElse(patch_info.name, "None"),
                                !.price = OrElse(patch_info.price, 0)]
         IN [data |-> DictSet(data, id, new),
             res |-> ItemEntity(id, InfoOfRow(new))]

\* patch: refuses an absent or soft-deleted id, else overwrites the fields
\* that are not None.
item_queries_patch(data, id, patch_info) ==
    IF ~DictHas(data, id) \/ DictGet(data, id).deleted
    THEN [data |-> data, res |-> NoneEntity]
    ELSE LET old == DictGet(data, id)
             new == [old EXCEPT
                       !.name = IF patch_info.name # NoneStr
                                THEN patch_info.name[1] ELSE @,
                       !.price = IF patch_info.price # NoneNum
                                 THEN patch_info.price[1] ELSE @]
         IN [data |-> DictSet(data, id, new),
             res |-> ItemEntity(id, InfoOfRow(new))]

\* Mutant: the loop of get_many with exclusive price bounds.
RECURSIVE item_queries_get_many_loop_strict(_, _, _, _)
item_queries_get_many_loop_strict(data, k, curr, q) ==
    IF k > Len(data) THEN [yield |-> NoneEntity, pos |-> Len(data), curr |-> curr]
    ELSE LET info == data[k] IN
         IF (~q.show_deleted) /\ info.deleted
         THEN item_queries_get_many_loop_strict(data, k + 1, curr, q)
         ELSE IF q.min_price # NoneNum /\ info.price <= q.min_price[1]
         THEN item_queries_get_many_loop_strict(data, k + 1, curr, q)
         ELSE IF q.max_price # NoneNum /\ info.price >= q.max_price[1]
         THEN item_queries_get_many_loop_strict(data, k + 1, curr, q)
         ELSE IF q.offset <= curr /\ curr < q.offset + q.limit
         THEN [yield |-> ItemEntity(info.id, InfoOfRow(info)), pos |-> k,
               curr |-> curr + 1]
         ELSE item_queries_get_many_loop_strict(data, k + 1, curr + 1, q)

\* get_many is a generator.  Its loop over the dict, from entry k on, up to
\* the next yield or to the end of the dict: curr counts the records that
\* pass the filters and the records numbered offset .. offset+limit-1 are
\* yielded.  The result is the entity yielded (NoneEntity at the end of the
\* loop), the number of entries passed and curr as it is on resumption.
RECURSIVE item_queries_get_many_loop(_, _, _, _)
item_queries_get_many_loop(data, k, curr, q) ==
    IF k > Len(data) THEN [yield |-> NoneEntity, pos |-> Len(data), curr |-> curr]
    ELSE LET info == data[k] IN
         IF (~q.show_deleted) /\ info.deleted
         THEN item_queries_get_many_loop(data, k + 1, curr, q)
         ELSE IF q.min_price # NoneNum /\ info.price < q.min_price[1]
         THEN item_queries_get_many_loop(data, k + 1, curr, q)
         ELSE IF q.max_price # NoneNum /\ info.price > q.max_price[1]
         THEN item_queries_get_many_loop(data, k + 1, curr, q)
         ELSE IF q.offset <= curr /\ curr < q.offset + q.limit
         THEN [yield |-> ItemEntity(info.id, InfoOfRow(info)), pos |-> k,
               curr |-> curr + 1]
         ELSE item_queries_get_many_loop(data, k + 1, curr + 1, q)

\* list(get_many(...)): the generator run to its end with no other call in
\* between, as the route handler runs it.
RECURSIVE item_queries_get_many_list(_, _, _, _, _)
item_queries_get_many_list(data, pos, curr, out, q) ==
    LET r == item_queries_get_many_loop(data, pos + 1, curr, q)
    IN IF r.yield = NoneEntity THEN out
       ELSE item_queries_get_many_list(data, r.pos, r.curr, Append(out, r.yield), q)

item_queries_get_many(data, q) == item_queries_get_many_list(data, 0, 0, <<>>, q)

(***************************************************************************)
(* hw2 cart store: cart_queries.py                                         *)
(***************************************************************************)
CartItemInfo(id, name, quantity, available) ==
    [id |-> id, name |-> name, quantity |-> quantity, available |-> available]

CartInfo(items, price) == [items |-> items, price |-> price]

CartRow(id, info) == [id |-> id, items |-> info.items, price |-> info.price]

CartEntity(id, info) == [id |-> id, info |-> info]

InfoOfCart(row) == CartInfo(row.items, row.price)

NoneItems == <<NoneEntity>>

\* f"item-{item_id}"
PlaceholderName(item_id) == "item-" \o ToString(item_id)

\* add_empty: takes the next id of the generator, stores an empty cart.
cart_queries_add_empty(gen, carts) ==
    [gen |-> gen + 1,
     carts |-> DictSet(carts, gen, CartRow(gen, CartInfo(<<>>, 0))),
     res |-> CartEntity(gen, CartInfo(<<>>, 0))]

\* delete: removes the cart; the other carts keep their order.
cart_queries_delete(carts, id) ==
    SelectSeq(carts, LAMBDA c : c.id # id)

\* _recalculate_cart_info: one pass over the stored lines in order; each
\* line is looked up with item_queries.get_one.
RECURSIVE recalculate_loop(_, _, _, _, _)
recalculate_loop(items, lines, k, total_price, recalculated_items) ==
    IF k > Len(lines) THEN CartInfo(recalculated_items, total_price)
    ELSE LET item == lines[k]
             entity == item_queries_get_one(items, item.id)
             available == entity # NoneEntity
             name == IF entity # NoneEntity THEN entity.info.name ELSE item.name
             price == IF entity # NoneEntity THEN entity.info.price ELSE 0
         IN recalculate_loop(items, lines, k + 1,
                IF available THEN total_price + price * item.quantity
                ELSE total_price,
                Append(recalculated_items,
                       CartItemInfo(item.id, name, item.quantity, available)))

\* Mutant: a recalculation that leaves the unavailable lines out.
recalculate_cart_info_available_only(items, info) ==
    LET all == recalculate_loop(items, info.items, 1, 0, <<>>)
    IN CartInfo(SelectSeq(all.items, LAMBDA i : i.available), all.price)

recalculate_cart_info(items, info) ==
    recalculate_loop(items, info.items, 1, 0, <<>>)

\* Mutant: get_one that shows the stored price.
cart_queries_get_one_stored_price(items, carts, id) ==
    IF ~DictHas(carts, id) THEN NoneEntity
    ELSE CartEntity(id,
           CartInfo(recalculate_cart_info(items, InfoOfCart(DictGet(carts, id))).items,
                    DictGet(carts, id).price))

\* get_one: None for an absent cart, else the recalculated view.
cart_queries_get_one(items, carts, id) ==
    IF ~DictHas(carts, id) THEN NoneEntity
    ELSE CartEntity(id, recalculate_cart_info(items, InfoOfCart(DictGet(carts, id))))

\* sum(i.quantity for i in recalculated.items)
RECURSIVE SumQuantity(_)
SumQuantity(lines) ==
    IF lines = <<>> THEN 0 ELSE Head(lines).quantity + SumQuantity(Tail(lines))

\* Mutant: the loop of get_many with curr counting every cart, so that the
\* page is taken of the stored carts and the filters apply to that page.
RECURSIVE cart_queries_get_many_loop_page_first(_, _, _, _, _)
cart_queries_get_many_loop_page_first(items, carts, k, curr, q) ==
    IF k > Len(carts) THEN [yield |-> NoneEntity, pos |-> Len(carts), curr |-> curr]
    ELSE LET recalculated == recalculate_cart_info(items, InfoOfCart(carts[k]))
             total_quantity == SumQuantity(recalculated.items)
         IN
         IF q.min_price # NoneNum /\ recalculated.price < q.min_price[1]
         THEN cart_queries_get_many_loop_page_first(items, carts, k + 1, curr + 1, q)
         ELSE IF q.max_price # NoneNum /\ recalculated.price > q.max_price[1]
         THEN cart_queries_get_many_loop_page_first(items, carts, k + 1, curr + 1, q)
         ELSE IF q.min_quantity # NoneNum /\ total_quantity < q.min_quantity[1]
         THEN cart_queries_get_many_loop_page_first(items, carts, k + 1, curr + 1, q)
         ELSE IF q.max_quantity # NoneNum /\ total_quantity > q.max_quantity[1]
         THEN cart_queries_get_many_loop_page_first(items, carts, k + 1, curr + 1, q)
         ELSE IF q.offset <= curr /\ curr < q.offset + q.limit
         THEN [yield |-> CartEntity(carts[k].id, recalculated), pos |-> k,
               curr |-> curr + 1]
         ELSE cart_queries_get_many_loop_page_first(items, carts, k + 1, curr + 1, q)

\* get_many is a generator.  Its loop over the dict, from entry k on, up to
\* the next yield or to the end: every cart passed is recalculated with the
\* items as they are then, filtered on the recalculated price and on the
\* summed quantity, and curr counts the carts that pass.
RECURSIVE cart_queries_get_many_loop(_, _, _, _, _)
cart_queries_get_many_loop(items, carts, k, curr, q) ==
    IF k > Len(carts) THEN [yield |-> NoneEntity, pos |-> Len(carts), curr |-> curr]
    ELSE LET recalculated == recalculate_cart_info(items, InfoOfCart(carts[k]))
             total_quantity == SumQuantity(recalculated.items)
         IN
         IF q.min_price # NoneNum /\ recalculated.price < q.min_price[1]
         THEN cart_queries_get_many_loop(items, carts, k + 1, curr, q)
         ELSE IF q.max_price # NoneNum /\ recalculated.price > q.max_price[1]
         THEN cart_queries_get_many_loop(items, carts, k + 1, curr, q)
         ELSE IF q.min_quantity # NoneNum /\ total_quantity < q.min_quantity[1]
         THEN cart_queries_get_many_loop(items, carts, k + 1, curr, q)
         ELSE IF q.max_quantity # NoneNum /\ total_quantity > q.max_quantity[1]
         THEN cart_queries_get_many_loop(items, carts, k + 1, curr, q)
         ELSE IF q.offset <= curr /\ curr < q.offset + q.limit
         THEN [yield |-> CartEntity(carts[k].id, recalculated), pos |-> k,
               curr |-> curr + 1]
         ELSE cart_queries_get_many_loop(items, carts, k + 1, curr + 1, q)

\* list(get_many(...)): the generator run to its end with no other call in
\* between, as the route handler runs it.
RECURSIVE cart_queries_get_many_list(_, _, _, _, _, _)
cart_queries_get_many_list(items, carts, pos, curr, out, q) ==
    LET r == cart_queries_get_many_loop(items, carts, pos + 1, curr, q)
    IN IF r.yield = NoneEntity THEN out
       ELSE cart_queries_get_many_list(items, carts, r.pos, r.curr,
                                       Append(out, r.yield), q)

cart_queries_get_many(items, carts, q) ==
    cart_queries_get_many_list(items, carts, 0, 0, <<>>, q)

\* update: refuses an absent cart, else stores the caller's info as it is
\* and returns that same info.
cart_queries_update(carts, id, info) ==
    IF ~DictHas(carts, id) THEN [carts |-> carts, res |-> NoneEntity]
    ELSE [carts |-> DictSet(carts, id, CartRow(id, info)),
          res |-> CartEntity(id, info)]

\* upsert: stores the caller's info as it is and returns that same info.
cart_queries_upsert(carts, id, info) ==
    [carts |-> DictSet(carts, id, CartRow(id, info)), res |-> CartEntity(id, info)]

\* patch: refuses an absent cart; replaces the lines when patch_info.items
\* is not None; stores and returns the recalculated info.
cart_queries_patch(items, carts, id, patch_info) ==
    IF ~DictHas(carts, id) THEN [carts |-> carts, res |-> NoneEntity]
    ELSE LET old == InfoOfCart(DictGet(carts, id))
             set == IF patch_info.items # NoneItems
                    THEN CartInfo(patch_info.items, old.price) ELSE old
             recalculated == recalculate_cart_info(items, set)
         IN [carts |-> DictSet(carts, id, CartRow(id, recalculated)),
             res |-> CartEntity(id, recalculated)]

\* Mutant: the last line with item_id instead of the first.
LastLineOf(lines, item_id) ==
    CHOOSE k \in 1..Len(lines) :
        /\ lines[k].id = item_id
        /\ \A j \in (k + 1)..Len(lines) : lines[j].id # item_id

\* The for/else of add_item: the first line with item_id gets quantity + 1;
\* when there is none, a line of quantity 1 is appended.
FirstLineOf(lines, item_id) ==
    CHOOSE k \in 1..Len(lines) :
        /\ lines[k].id = item_id
        /\ \A j \in 1..(k - 1) : lines[j].id # item_id

add_item_lines(items, lines, item_id) ==
    LET item_entity == item_queries_get_one(items, item_id)
        name == IF item_entity # NoneEntity THEN item_entity.info.name
                ELSE PlaceholderName(item_id)
    IN IF \E k \in 1..Len(lines) : lines[k].id = item_id
       THEN [lines EXCEPT ![FirstLineOf(lines, item_id)].quantity = @ + 1]
       ELSE Append(lines, CartItemInfo(item_id, name, 1, item_entity # NoneEntity))

\* Mutant: add_item that creates the cart when it is absent.
cart_queries_add_item_creates(items, carts, cart_id, item_id) ==
    LET existing == IF DictHas(carts, cart_id) THEN InfoOfCart(DictGet(carts, cart_id))
                    ELSE CartInfo(<<>>, 0)
        changed == CartInfo(add_item_lines(items, existing.items, item_id),
                            existing.price)
        recalculated == recalculate_cart_info(items, changed)
    IN [carts |-> DictSet(carts, cart_id, CartRow(cart_id, recalculated)),
        res |-> CartEntity(cart_id, recalculated)]

\* add_item: refuses an absent cart; stores and returns the recalculated info.
cart_queries_add_item(items, carts, cart_id, item_id) ==
    IF ~DictHas(carts, cart_id) THEN [carts |-> carts, res |-> NoneEntity]
    ELSE LET existing == InfoOfCart(DictGet(carts, cart_id))
             changed == CartInfo(add_item_lines(items, existing.items, item_id),
                                 existing.price)
             recalculated == recalculate_cart_info(items, changed)
         IN [carts |-> DictSet(carts, cart_id, CartRow(cart_id, recalculated)),
             res |-> CartEntity(cart_id, recalculated)]

(***************************************************************************)
(* hw45 relational store: shop_api/main.py                                 *)
(*                                                                         *)
(* db is the database: the tables items, carts and cart_items as sequences *)
(* of rows in the order they were inserted, and the two sequences that     *)
(* PostgreSQL keeps for the SERIAL primary keys.  DATABASE_URL chooses the *)
(* engine: PostgreSQL by default, SQLite in tests/test.py.  They differ in *)
(*   - the id of a row inserted without one: SQLite takes the largest id   *)
(*     of the table plus one, PostgreSQL the next value of the sequence;   *)
(*   - foreign keys: PostgreSQL enforces them, SQLite as opened by         *)
(*     create_engine does not;                                             *)
(*   - the order of a SELECT without ORDER BY: SQLite walks the primary    *)
(*     key, PostgreSQL promises no order.                                  *)
(* Every store function runs in one session and is one step of the model;  *)
(* an exception rolls its transaction back.                                *)
(***************************************************************************)
IntegrityError == [error |-> "IntegrityError"]

Ok == [ok |-> TRUE]

EmptyDb == [items |-> <<>>, carts |-> <<>>, cart_items |-> <<>>,
            item_seq |-> 0, cart_seq |-> 0]

Perms(rows) ==
    LET n == Len(rows)
        bij == {f \in [1..n -> 1..n] : \A a, b \in 1..n : f[a] = f[b] => a = b}
    IN {[k \in 1..n |-> rows[f[k]]] : f \in bij}

\* The orders in which the engine may return rows that carry their key in id.
ScanOrders(engine, rows) ==
    IF engine = "sqlite"
    THEN {r \in Perms(rows) : \A a, b \in 1..Len(r) : a < b => r[a].id <= r[b].id}
    ELSE Perms(rows)

MaxOfIds(rows) ==
    IF rows = <<>> THEN 0
    ELSE CHOOSE m \in DictKeys(rows) : \A x \in DictKeys(rows) : x <= m

\* The id the engine gives to a row inserted without one.
NextRowId(engine, rows, seq) ==
    IF engine = "sqlite" THEN MaxOfIds(rows) + 1 ELSE seq + 1

\* _to_item_entity
to_item_entity(orm) == ItemEntity(orm.id, InfoOfRow(orm))

\* item_add: INSERT without id.  In PostgreSQL the sequence advances even
\* when the id it yields is taken and the INSERT fails.
item_add(engine, d, info) ==
    LET id == NextRowId(engine, d.items, d.item_seq)
        seq == IF engine = "sqlite" THEN d.item_seq ELSE id
    IN IF DictHas(d.items, id)
       THEN [db |-> [d EXCEPT !.item_seq = seq], res |-> IntegrityError]
       ELSE [db |-> [d EXCEPT !.item_seq = seq,
                               !.items = Append(@, ItemRow(id, info))],
             res |-> ItemEntity(id, info)]

\* Mutant: delete that removes the row.
item_delete_hard(d, id) ==
    [d EXCEPT !.items = SelectSeq(@, LAMBDA orm : orm.id # id)]

\* item_delete: UPDATE items SET deleted = true WHERE id = :id
item_delete(d, id) ==
    [d EXCEPT !.items = [k \in 1..Len(@) |->
                            IF @[k].id = id THEN [@[k] EXCEPT !.deleted = TRUE]
                            ELSE @[k]]]

item_get_one(d, id) ==
    IF ~DictHas(d.items, id) \/ DictGet(d.items, id).deleted THEN NoneEntity
    ELSE to_item_entity(DictGet(d.items, id))

\* item_get_many: the WHERE clauses, then OFFSET and LIMIT, on the rows in
\* the order scan the engine returns them in.
item_get_many(scan, q) ==
    LET hit(orm) == /\ (q.show_deleted \/ ~orm.deleted)
                    /\ (q.min_price = NoneNum \/ orm.price >= q.min_price[1])
                    /\ (q.max_price = NoneNum \/ orm.price <= q.max_price[1])
        rows == SelectSeq(scan, hit)
        page == SubSeq(rows, q.offset + 1,
                       IF q.offset + q.limit < Len(rows)
                       THEN q.offset + q.limit ELSE Len(rows))
    IN [k \in 1..Len(page) |-> to_item_entity(page[k])]

item_update(d, id, info) ==
    IF ~DictHas(d.items, id) \/ DictGet(d.items, id).deleted
    THEN [db |-> d, res |-> NoneEntity]
    ELSE [db |-> [d EXCEPT !.items = DictSet(@, id, ItemRow(id, info))],
          res |-> ItemEntity(id, info)]

item_upsert(d, id, info) ==
    [db |-> [d EXCEPT !.items = DictSet(@, id, ItemRow(id, info))],
     res |-> ItemEntity(id, info)]

item_patch(d, id, patch_info) ==
    IF ~DictHas(d.items, id) \/ DictGet(d.items, id).deleted
    THEN [db |-> d, res |-> NoneEntity]
    ELSE LET old == DictGet(d.items, id)
             new == [old EXCEPT
                       !.name = IF patch_info.name # NoneStr
                                THEN patch_info.name[1] ELSE @,
                       !.price = IF patch_info.price # NoneNum
                                 THEN patch_info.price[1] ELSE @]
         IN [db |-> [d EXCEPT !.items = DictSet(@, id, new)],
             res |-> to_item_entity(new)]

\* The rows of the SELECT of _cart_recalculate_by_id, in insertion order:
\* cart_items of the cart joined (inner join) with items on the item id.
CartJoin(d, cart_id) ==
    LET mine == SelectSeq(d.cart_items,
                          LAMBDA ci : ci.cart_id = cart_id /\ DictHas(d.items, ci.item_id))
    IN [k \in 1..Len(mine) |->
          LET orm == DictGet(d.items, mine[k].item_id)
          IN [id |-> mine[k].item_id, quantity |-> mine[k].quantity,
              name |-> orm.name, deleted |-> orm.deleted, price |-> orm.price]]

\* _cart_recalculate_by_id, on the joined rows in the order the engine
\* returned them.
RECURSIVE cart_recalculate_loop(_, _, _, _)
cart_recalculate_loop(rows, k, total_price, items) ==
    IF k > Len(rows) THEN CartInfo(items, total_price)
    ELSE LET available == ~rows[k].deleted
         IN cart_recalculate_loop(rows, k + 1,
                IF available THEN total_price + rows[k].price * rows[k].quantity
                ELSE total_price,
                Append(items, CartItemInfo(rows[k].id, rows[k].name,
                                           rows[k].quantity, available)))

cart_recalculate_by_id(rows) == cart_recalculate_loop(rows, 1, 0, <<>>)

\* The views _cart_recalculate_by_id may return for a cart.
CartViews(engine, d, cart_id) ==
    {cart_recalculate_by_id(rows) : rows \in ScanOrders(engine, CartJoin(d, cart_id))}

\* cart_add_empty: INSERT without id.
cart_add_empty(engine, d) ==
    LET id == NextRowId(engine, d.carts, d.cart_seq)
        seq == IF engine = "sqlite" THEN d.cart_seq ELSE id
    IN IF DictHas(d.carts, id)
       THEN [db |-> [d EXCEPT !.cart_seq = seq], res |-> IntegrityError]
       ELSE [db |-> [d EXCEPT !.cart_seq = seq,
                               !.carts = Append(@, [id |-> id])],
             res |-> CartEntity(id, CartInfo(<<>>, 0))]

\* _cart_set_items followed by flush: the DELETE of the cart's lines, then
\* one INSERT per line.  FALSE when an INSERT breaks the primary key
\* (cart_id, item_id) or, where foreign keys are enforced, names no item.
SetItemsOk(engine, d, items) ==
    /\ \A a, b \in 1..Len(items) : items[a].id = items[b].id => a = b
    /\ engine = "sqlite" \/ \A a \in 1..Len(items) : DictHas(d.items, items[a].id)

cart_set_items(d, cart_id, items) ==
    [d EXCEPT !.cart_items =
        SelectSeq(@, LAMBDA ci : ci.cart_id # cart_id)
        \o [k \in 1..Len(items) |->
              [cart_id |-> cart_id, item_id |-> items[k].id,
               quantity |-> items[k].quantity]]]

\* cart_update, cart_upsert, cart_patch and cart_add_item return the
\* database after the call and ok: the view is then recalculated from it.
cart_update(engine, d, id, info) ==
    IF ~DictHas(d.carts, id) THEN [db |-> d, res |-> NoneEntity]
    ELSE IF ~SetItemsOk(engine, d, info.items)
    THEN [db |-> d, res |-> IntegrityError]
    ELSE [db |-> cart_set_items(d, id, info.items), res |-> Ok]

cart_upsert(engine, d, id, info) ==
    LET made == IF DictHas(d.carts, id) THEN d
                ELSE [d EXCEPT !.carts = Append(@, [id |-> id])]
    IN IF ~SetItemsOk(engine, made, info.items)
       THEN [db |-> d, res |-> IntegrityError]
       ELSE [db |-> cart_set_items(made, id, info.items), res |-> Ok]

cart_patch(engine, d, id, patch_info) ==
    IF ~DictHas(d.carts, id) THEN [db |-> d, res |-> NoneEntity]
    ELSE IF patch_info.items = NoneItems THEN [db |-> d, res |-> Ok]
    ELSE IF ~SetItemsOk(engine, d, patch_info.items)
    THEN [db |-> d, res |-> IntegrityError]
    ELSE [db |-> cart_set_items(d, id, patch_info.items), res |-> Ok]

cart_add_item(engine, d, cart_id, item_id) ==
    LET has == \E k \in 1..Len(d.cart_items) :
                  d.cart_items[k].cart_id = cart_id /\ d.cart_items[k].item_id = item_id
    IN IF ~DictHas(d.carts, cart_id) THEN [db |-> d, res |-> NoneEntity]
       ELSE IF has
       THEN [db |-> [d EXCEPT !.cart_items =
                       [k \in 1..Len(@) |->
                          IF @[k].cart_id = cart_id /\ @[k].item_id = item_id
                          THEN [@[k] EXCEPT !.quantity = @ + 1] ELSE @[k]]],
             res |-> Ok]
       ELSE IF engine # "sqlite" /\ ~DictHas(d.items, item_id)
       THEN [db |-> d, res |-> IntegrityError]
       ELSE [db |-> [d EXCEPT !.cart_items =
                       Append(@, [cart_id |-> cart_id, item_id |-> item_id,
                                  quantity |-> 1])],
             res |-> Ok]

\* cart_get_many is a generator.  Its first statement: OFFSET and LIMIT
\* select the cart ids, in the order scan the engine returns the carts in.
cart_get_many_ids(scan, q) ==
    SubSeq(scan, q.offset + 1,
           IF q.offset + q.limit < Len(scan) THEN q.offset + q.limit ELSE Len(scan))

\* The filters of cart_get_many on a recalculated cart.
cart_get_many_hit(info, q) ==
    LET total_quantity == SumQuantity(info.items)
    IN /\ ~(q.min_price # NoneNum /\ info.price < q.min_price[1])
       /\ ~(q.max_price # NoneNum /\ info.price > q.max_price[1])
       /\ ~(q.min_quantity # NoneNum /\ total_quantity < q.min_quantity[1])
       /\ ~(q.max_quantity # NoneNum /\ total_quantity > q.max_quantity[1])

\* Its loop over the selected ids, from the k-th on, up to the next yield or
\* to the end: each cart passed is recalculated (view[id] is what
\* _cart_recalculate_by_id returns for it then) and dropped when it fails a
\* filter.
RECURSIVE cart_get_many_loop(_, _, _, _)
cart_get_many_loop(cart_ids, view, k, q) ==
    IF k > Len(cart_ids) THEN [yield |-> NoneEntity, pos |-> Len(cart_ids)]
    ELSE IF cart_get_many_hit(view[cart_ids[k].id], q)
    THEN [yield |-> CartEntity(cart_ids[k].id, view[cart_ids[k].id]), pos |-> k]
    ELSE cart_get_many_loop(cart_ids, view, k + 1, q)

\* list(cart_get_many(...)): the generator run to its end with nothing
\* committed in between.
cart_get_many(scan, view, q) ==
    LET kept == SelectSeq(cart_get_many_ids(scan, q),
                          LAMBDA c : cart_get_many_hit(view[c.id], q))
    IN [k \in 1..Len(kept) |-> CartEntity(kept[k].id, view[kept[k].id])]

(***************************************************************************)
(* Inputs of the store calls.  A scope w names the finite sets the calls   *)
(* of one specification draw their arguments from.                         *)
(***************************************************************************)
\* add, update and upsert are given item "A" at price 5 or item "B" at price
\* 10, live or deleted; patch renames to "B", reprices to 10, both or neither.
ItemInfos ==
    {ItemInfo("A", 5, d) : d \in BOOLEAN} \cup {ItemInfo("B", 10, d) : d \in BOOLEAN}

PatchItemInfos ==
    {[name |-> n, price |-> p] : n \in {NoneStr, Some("B")}, p \in {NoneNum, Some(10)}}

ReqLines(w) ==
    {CartItemInfo(i, n, q, a) : i \in w.lineIds, n \in w.reqNames,
                                q \in w.quantities, a \in w.reqAvailable}

LineSeqs(w) == UNION {[1..n -> ReqLines(w)] : n \in 0..w.maxLines}

CartInfos(w) == {CartInfo(l, p) : l \in LineSeqs(w), p \in w.reqPrices}

PatchCartInfos(w) ==
    {[items |-> l, price |-> NoneNum] : l \in LineSeqs(w) \cup {NoneItems}}

ItemQueries(w) ==
    {[offset |-> o, limit |-> l, min_price |-> lo, max_price |-> hi,
      show_deleted |-> sd] :
        o \in w.itemOffsets, l \in w.itemLimits, lo \in w.itemMinPrices,
        hi \in w.itemMaxPrices, sd \in BOOLEAN}

CartQueries(w) ==
    {[offset |-> o, limit |-> l, min_price |-> lo, max_price |-> hi,
      min_quantity |-> ql, max_quantity |-> qh] :
        o \in w.offsets, l \in w.limits, lo \in w.minPrices, hi \in w.maxPrices,
        ql \in w.minQuantities, qh \in w.maxQuantities}

\* What ret keeps of a call: its name, the id it was given or issued, its
\* result, and its argument unless the call reported None.
Call(op, id, arg, res) ==
    [op |-> op, id |-> id, res |-> res,
     arg |-> IF res = NoneEntity THEN NoneEntity ELSE arg]

ListCall(op, arg, res) == [op |-> op, id |-> NoId, res |-> res, arg |-> arg]

(***************************************************************************)
(* The four get_many functions are generators: the call returns a          *)
(* generator object without running any of the body, and every next() runs *)
(* the body up to its next yield, to its end (StopIteration) or to an      *)
(* exception.  iter is the generator object of the last get_many call:     *)
(* status is "new" until the first next(), "open" while the body is        *)
(* suspended at a yield, "done" once it has ended; pos counts the entries  *)
(* the loop has passed, curr is the local of that name, used the size the  *)
(* dict had when the loop started (the dict iterator raises RuntimeError   *)
(* when the size differs on a later step), page the rows the first         *)
(* statement of a relational get_many loaded, out the entities yielded so  *)
(* far, shared the ids of those whose info is the object items_data holds  *)
(* (the in-memory get_many of items yields ItemEntity(id, info) with the   *)
(* stored info), and between the number of other store calls that ran      *)
(* since the call.  A generator that ends becomes the call ret records,    *)
(* with the list of the entities it yielded or with its exception.         *)
(***************************************************************************)
NoGen ==
    [status |-> "none", op |-> "none", q |-> NoneEntity, page |-> <<>>, pos |-> 0,
     used |-> 0, curr |-> 0, out |-> <<>>, shared |-> {}, between |-> 0]

RuntimeError == [error |-> "RuntimeError"]

GenOpen(g) == g.status \in {"new", "open"}

\* The generator after another store call has run.
Interleaved(g) == IF GenOpen(g) THEN [g EXCEPT !.between = @ + 1] ELSE NoGen

\* del carts_data[id] leaves a hole in the entries of the dict: when the
\* entry lies behind the iterator, one entry less has been passed.  (The
\* entries are not compacted before the sixth insertion, which MaxSteps
\* calls do not reach.)
InterleavedDelete(g, carts, id) ==
    IF /\ g.status = "open"
       /\ g.op = "cart_get_many"
       /\ DictHas(carts, id)
       /\ DictIndex(carts, id) <= g.pos
    THEN [Interleaved(g) EXCEPT !.pos = @ - 1]
    ELSE Interleaved(g)

\* The generator after a call on the item id that left the item store as
\* data: delete and patch write into the stored info, which an entity
\* yielded earlier shares; update and upsert store another object
\* (replaced), which ends the sharing.
InterleavedItem(g, data, id, replaced) ==
    IF g.status = "open" /\ g.op = "item_get_many" /\ id \in g.shared
    THEN IF replaced THEN [Interleaved(g) EXCEPT !.shared = @ \ {id}]
         ELSE [Interleaved(g) EXCEPT
                 !.out = [k \in 1..Len(@) |->
                            IF @[k].id = id
                            THEN ItemEntity(id, InfoOfRow(DictGet(data, id)))
                            ELSE @[k]]]
    ELSE Interleaved(g)

\* g = get_many(...): the call returns the generator object, nothing of the
\* body has run.
GenCall(op, q) ==
    /\ ~GenOpen(iter)
    /\ iter' = [NoGen EXCEPT !.status = "new", !.op = op, !.q = q]
    /\ ret' = ListCall("generator", q, NoneEntity)

\* next(g) when the body yields: the generator is suspended again, and the
\* caller's last call is this next (the entity yielded is the last of out).
GenYield(g) ==
    /\ iter' = [g EXCEPT !.status = "open"]
    /\ ret' = ListCall("next", g.q, NoneEntity)

\* next(g) when the body ends or raises: the call is over.
GenReturn(res) ==
    /\ ret' = ListCall(iter.op, iter.q, res)
    /\ iter' = [NoGen EXCEPT !.status = "done", !.between = iter.between]

\* The last call was a get_many whose generator was run to its end with no
\* other store call between the call and the end, as list(get_many(...))
\* runs it.
ListedAtOnce(g) == g.status = "done" /\ g.between = 0

\* Every action but next() is one store call; a behaviour makes at most
\* MaxSteps calls, at most MaxBetween of them while a generator is in use.
\* Step is a call other than add and add_empty, Issue(op, res) one of these.
Count ==
    /\ steps < MaxSteps
    /\ GenOpen(iter) => iter.between < MaxBetween
    /\ steps' = steps + 1

Step == Count /\ UNCHANGED issued /\ iter' = Interleaved(iter)

Issue(op, res) ==
    /\ Count
    /\ iter' = Interleaved(iter)
    /\ issued' = IF res = IntegrityError THEN issued
                 ELSE Append(issued, [op |-> op, id |-> res.id])

(***************************************************************************)
(* hw2: what a caller holds.  add_empty, update, upsert, patch and         *)
(* add_item return CartEntity(id, info) where info is the very CartInfo    *)
(* object they have just put into carts_data; get_one builds a new one.    *)
(* held is an entity a caller holds from an earlier call, the call it came *)
(* from, and shared: its info is the object carts_data holds for the cart. *)
(* add_item writes into that object (it.quantity += 1, items.append) and   *)
(* patch assigns its items attribute before either stores a new object;    *)
(* every call that stores or deletes the cart's object ends the sharing.   *)
(***************************************************************************)
NoHeld == [op |-> "none", entity |-> NoneEntity, shared |-> FALSE]

\* held after the cart call call, made while the item store was items.
HeldAfter(call, items) ==
    IF ~held.shared \/ call.id # held.entity.id THEN held
    ELSE IF call.op \in {"cart_delete", "cart_add_empty"}
    THEN [held EXCEPT !.shared = FALSE]
    ELSE IF call.res = NoneEntity THEN held
    ELSE IF call.op = "cart_add_item"
    THEN [held EXCEPT !.shared = FALSE,
                      !.entity.info.items = add_item_lines(items, @, call.arg)]
    ELSE IF call.op = "cart_patch" /\ call.arg.items # NoneItems
    THEN [held EXCEPT !.shared = FALSE, !.entity.info.items = call.arg.items]
    ELSE IF call.op = "patch_cart" /\ call.arg.items # NoneItems /\ call.arg.items # <<>>
    THEN [held EXCEPT !.shared = FALSE, !.entity.info.items = call.arg.items]
    ELSE [held EXCEPT !.shared = FALSE]

(***************************************************************************)
(* hw2: one action per store function.                                     *)
(***************************************************************************)
Hw2ItemAdd(w) ==
    /\ backend = "hw2"
    /\ id_generator <= MaxId
    /\ \E info \in ItemInfos :
         LET r == item_queries_add(id_generator, items_data, info) IN
         /\ Issue("item_add", r.res)
         /\ id_generator' = r.gen
         /\ items_data' = r.data
         /\ ret' = Call("item_add", r.res.id, info, r.res)
    /\ UNCHANGED <<backend, txn, held, db, carts_data>>

Hw2ItemDelete(w) ==
    /\ backend = "hw2"
    /\ Count
    /\ UNCHANGED issued
    /\ \E id \in w.itemIds :
         /\ items_data' = item_queries_delete(items_data, id)
         /\ iter' = InterleavedItem(iter, items_data', id, FALSE)
         /\ ret' = Call("item_delete", id, NoneEntity, NoneEntity)
    /\ UNCHANGED <<backend, txn, held, db, id_generator, carts_data>>

Hw2ItemGetOne(w) ==
    /\ backend = "hw2"
    /\ Step
    /\ \E id \in w.itemIds :
         ret' = Call("item_get_one", id, NoneEntity,
                     item_queries_get_one(items_data, id))
    /\ UNCHANGED <<backend, txn, held, db, id_generator, items_data, carts_data>>

\* g = get_many(...)
Hw2ItemGetMany(w) ==
    /\ backend = "hw2"
    /\ Count
    /\ \E q \in ItemQueries(w) : GenCall("item_get_many", q)
    /\ UNCHANGED <<backend, txn, held, db, id_generator, items_data, carts_data,
                   issued>>

\* next(g) on the generator of get_many
Hw2ItemGetManyNext ==
    /\ backend = "hw2"
    /\ GenOpen(iter)
    /\ iter.op = "item_get_many"
    /\ IF iter.status = "open" /\ Len(items_data) # iter.used
       THEN GenReturn(RuntimeError)
       ELSE LET r == item_queries_get_many_loop(items_data, iter.pos + 1, iter.curr,
                                                iter.q)
            IN IF r.yield = NoneEntity THEN GenReturn(iter.out)
               ELSE GenYield([iter EXCEPT !.used = Len(items_data), !.pos = r.pos,
                                         !.curr = r.curr,
                                         !.out = Append(@, r.yield),
                                         !.shared = @ \cup {r.yield.id}])
    /\ UNCHANGED <<backend, txn, held, db, id_generator, items_data, carts_data,
                   issued, steps>>

Hw2ItemUpdate(w) ==
    /\ backend = "hw2"
    /\ Count
    /\ UNCHANGED issued
    /\ \E id \in w.itemIds, info \in ItemInfos :
         LET r == item_queries_update(items_data, id, info) IN
         /\ items_data' = r.data
         /\ iter' = InterleavedItem(iter, r.data, id, r.res # NoneEntity)
         /\ ret' = Call("item_update", id, info, r.res)
    /\ UNCHANGED <<backend, txn, held, db, id_generator, carts_data>>

Hw2ItemUpsert(w) ==
    /\ backend = "hw2"
    /\ Count
    /\ UNCHANGED issued
    /\ \E id \in w.itemIds, info \in ItemInfos :
         LET r == item_queries_upsert(items_data, id, info) IN
         /\ items_data' = r.data
         /\ iter' = InterleavedItem(iter, r.data, id, TRUE)
         /\ ret' = Call("item_upsert", id, info, r.res)
    /\ UNCHANGED <<backend, txn, held, db, id_generator, carts_data>>

Hw2ItemPatch(w) ==
    /\ backend = "hw2"
    /\ Count
    /\ UNCHANGED issued
    /\ \E id \in w.itemIds, patch_info \in PatchItemInfos :
         LET r == item_queries_patch(items_data, id, patch_info) IN
         /\ items_data' = r.data
         /\ iter' = InterleavedItem(iter, r.data, id, FALSE)
         /\ ret' = Call("item_patch", id, patch_info, r.res)
    /\ UNCHANGED <<backend, txn, held, db, id_generator, carts_data>>

Hw2CartAddEmpty(w) ==
    /\ backend = "hw2"
    /\ id_generator <= MaxId
    /\ LET r == cart_queries_add_empty(id_generator, carts_data) IN
         /\ Issue("cart_add_empty", r.res)
         /\ id_generator' = r.gen
         /\ carts_data' = r.carts
         /\ ret' = Call("cart_add_empty", r.res.id, NoneEntity, r.res)
    /\ held' = HeldAfter(ret', items_data)
    /\ UNCHANGED <<backend, txn, db, items_data>>

Hw2CartDelete(w) ==
    /\ backend = "hw2"
    /\ Count
    /\ UNCHANGED issued
    /\ \E id \in w.cartIds :
         /\ carts_data' = cart_queries_delete(carts_data, id)
         /\ iter' = InterleavedDelete(iter, carts_data, id)
         /\ ret' = Call("cart_delete", id, NoneEntity, NoneEntity)
    /\ held' = HeldAfter(ret', items_data)
    /\ UNCHANGED <<backend, txn, db, id_generator, items_data>>

Hw2CartGetOne(w) ==
    /\ backend = "hw2"
    /\ Step
    /\ \E id \in w.cartIds :
         ret' = Call("cart_get_one", id, NoneEntity,
                     cart_queries_get_one(items_data, carts_data, id))
    /\ UNCHANGED <<backend, txn, held, db, id_generator, items_data, carts_data>>

\* g = get_many(...)
Hw2CartGetMany(w) ==
    /\ backend = "hw2"
    /\ Count
    /\ \E q \in CartQueries(w) : GenCall("cart_get_many", q)
    /\ UNCHANGED <<backend, txn, held, db, id_generator, items_data, carts_data,
                   issued>>

\* next(g) on the generator of get_many
Hw2CartGetManyNext ==
    /\ backend = "hw2"
    /\ GenOpen(iter)
    /\ iter.op = "cart_get_many"
    /\ IF iter.status = "open" /\ Len(carts_data) # iter.used
       THEN GenReturn(RuntimeError)
       ELSE LET r == cart_queries_get_many_loop(items_data, carts_data,
                                                iter.pos + 1, iter.curr, iter.q)
            IN IF r.yield = NoneEntity THEN GenReturn(iter.out)
               ELSE GenYield([iter EXCEPT !.used = Len(carts_data), !.pos = r.pos,
                                         !.curr = r.curr,
                                         !.out = Append(@, r.yield)])
    /\ UNCHANGED <<backend, txn, held, db, id_generator, items_data, carts_data,
                   issued, steps>>

Hw2CartUpdate(w) ==
    /\ backend = "hw2"
    /\ Step
    /\ \E id \in w.cartIds, info \in CartInfos(w) :
         LET r == cart_queries_update(carts_data, id, info) IN
         /\ carts_data' = r.carts
         /\ ret' = Call("cart_update", id, info, r.res)
    /\ held' = HeldAfter(ret', items_data)
    /\ UNCHANGED <<backend, txn, db, id_generator, items_data>>

Hw2CartUpsert(w) ==
    /\ backend = "hw2"
    /\ Step
    /\ \E id \in w.cartIds, info \in CartInfos(w) :
         LET r == cart_queries_upsert(carts_data, id, info) IN
         /\ carts_data' = r.carts
         /\ ret' = Call("cart_upsert", id, info, r.res)
    /\ held' = HeldAfter(ret', items_data)
    /\ UNCHANGED <<backend, txn, db, id_generator, items_data>>

Hw2CartPatch(w) ==
    /\ backend = "hw2"
    /\ Step
    /\ \E id \in w.cartIds, patch_info \in PatchCartInfos(w) :
         LET r == cart_queries_patch(items_data, carts_data, id, patch_info) IN
         /\ carts_data' = r.carts
         /\ ret' = Call("cart_patch", id, patch_info, r.res)
    /\ held' = HeldAfter(ret', items_data)
    /\ UNCHANGED <<backend, txn, db, id_generator, items_data>>

\* The quantity and the number of lines grow without limit in the source;
\* the model stops add_item at MaxQty and MaxLines.
WithinBounds(info) ==
    /\ Len(info.items) <= MaxLines
    /\ \A k \in 1..Len(info.items) : info.items[k].quantity <= MaxQty

\* Mutant: add_item that stores an item record for an item id it does not
\* find.
Hw2CartAddItemCreatesItem(w) ==
    /\ backend = "hw2"
    /\ Step
    /\ \E cart_id \in w.cartIds, item_id \in w.lineIds :
         LET r == cart_queries_add_item(items_data, carts_data, cart_id, item_id) IN
         /\ r.res # NoneEntity => WithinBounds(r.res.info)
         /\ carts_data' = r.carts
         /\ items_data' = IF r.res # NoneEntity /\ ~DictHas(items_data, item_id)
                          THEN DictSet(items_data, item_id,
                                       ItemRow(item_id, ItemInfo("A", 0, FALSE)))
                          ELSE items_data
         /\ ret' = Call("cart_add_item", cart_id, item_id, r.res)
    /\ held' = HeldAfter(ret', items_data)
    /\ UNCHANGED <<backend, txn, db, id_generator>>

Hw2CartAddItem(w) ==
    /\ backend = "hw2"
    /\ Step
    /\ \E cart_id \in w.cartIds, item_id \in w.lineIds :
         LET r == cart_queries_add_item(items_data, carts_data, cart_id, item_id) IN
         /\ r.res # NoneEntity => WithinBounds(r.res.info)
         /\ carts_data' = r.carts
         /\ ret' = Call("cart_add_item", cart_id, item_id, r.res)
    /\ held' = HeldAfter(ret', items_data)
    /\ UNCHANGED <<backend, txn, db, id_generator, items_data>>

Hw2Next(w) ==
    \/ Hw2ItemAdd(w)
    \/ Hw2ItemDelete(w)
    \/ Hw2ItemGetOne(w)
    \/ Hw2ItemGetMany(w)
    \/ Hw2ItemGetManyNext
    \/ Hw2ItemUpdate(w)
    \/ Hw2ItemUpsert(w)
    \/ Hw2ItemPatch(w)
    \/ Hw2CartAddEmpty(w)
    \/ Hw2CartDelete(w)
    \/ Hw2CartGetOne(w)
    \/ Hw2CartGetMany(w)
    \/ Hw2CartGetManyNext
    \/ Hw2CartUpdate(w)
    \/ Hw2CartUpsert(w)
    \/ Hw2CartPatch(w)
    \/ Hw2CartAddItem(w)

(***************************************************************************)
(* hw45: one action per store function.                                    *)
(***************************************************************************)
Hw45 == backend \in {"sqlite", "postgresql"}

Hw2Vars == <<id_generator, items_data, carts_data>>

Hw45ItemAdd(w) ==
    /\ Hw45
    /\ NextRowId(backend, db.items, db.item_seq) <= MaxId
    /\ \E info \in ItemInfos :
         LET r == item_add(backend, db, info) IN
         /\ Issue("item_add", r.res)
         /\ db' = r.db
         /\ ret' = Call("item_add", NextRowId(backend, db.items, db.item_seq),
                        info, r.res)
    /\ UNCHANGED <<backend, txn, held, Hw2Vars>>

Hw45ItemDelete(w) ==
    /\ Hw45
    /\ Step
    /\ \E id \in w.itemIds :
         /\ db' = item_delete(db, id)
         /\ ret' = Call("item_delete", id, NoneEntity, NoneEntity)
    /\ UNCHANGED <<backend, txn, held, Hw2Vars>>

Hw45ItemGetOne(w) ==
    /\ Hw45
    /\ Step
    /\ \E id \in w.itemIds :
         ret' = Call("item_get_one", id, NoneEntity, item_get_one(db, id))
    /\ UNCHANGED <<backend, txn, held, db, Hw2Vars>>

\* g = item_get_many(...)
Hw45ItemGetMany(w) ==
    /\ Hw45
    /\ Count
    /\ \E q \in ItemQueries(w) : GenCall("item_get_many", q)
    /\ UNCHANGED <<backend, txn, held, db, Hw2Vars, issued>>

\* next(g) on the generator of item_get_many: the first one runs the SELECT
\* and loads its rows, each one yields the entity of the next row loaded.
Hw45ItemGetManyNext ==
    /\ Hw45
    /\ GenOpen(iter)
    /\ iter.op = "item_get_many"
    /\ IF iter.status = "new"
       THEN \E scan \in ScanOrders(backend, db.items) :
              LET page == item_get_many(scan, iter.q)
              IN IF page = <<>> THEN GenReturn(<<>>)
                 ELSE GenYield([iter EXCEPT !.page = page, !.pos = 1,
                                           !.out = <<page[1]>>])
       ELSE IF iter.pos = Len(iter.page) THEN GenReturn(iter.out)
       ELSE GenYield([iter EXCEPT !.pos = @ + 1,
                                 !.out = Append(@, iter.page[iter.pos + 1])])
    /\ UNCHANGED <<backend, txn, held, db, Hw2Vars, issued, steps>>

Hw45ItemUpdate(w) ==
    /\ Hw45
    /\ Step
    /\ \E id \in w.itemIds, info \in ItemInfos :
         LET r == item_update(db, id, info) IN
         /\ db' = r.db
         /\ ret' = Call("item_update", id, info, r.res)
    /\ UNCHANGED <<backend, txn, held, Hw2Vars>>

Hw45ItemUpsert(w) ==
    /\ Hw45
    /\ Step
    /\ \E id \in w.itemIds, info \in ItemInfos :
         LET r == item_upsert(db, id, info) IN
         /\ db' = r.db
         /\ ret' = Call("item_upsert", id, info, r.res)
    /\ UNCHANGED <<backend, txn, held, Hw2Vars>>

Hw45ItemPatch(w) ==
    /\ Hw45
    /\ Step
    /\ \E id \in w.itemIds, patch_info \in PatchItemInfos :
         LET r == item_patch(db, id, patch_info) IN
         /\ db' = r.db
         /\ ret' = Call("item_patch", id, patch_info, r.res)
    /\ UNCHANGED <<backend, txn, held, Hw2Vars>>

Hw45CartAddEmpty(w) ==
    /\ Hw45
    /\ NextRowId(backend, db.carts, db.cart_seq) <= MaxId
    /\ LET r == cart_add_empty(backend, db) IN
         /\ Issue("cart_add_empty", r.res)
         /\ db' = r.db
         /\ ret' = Call("cart_add_empty", NextRowId(backend, db.carts, db.cart_seq),
                        NoneEntity, r.res)
    /\ UNCHANGED <<backend, txn, held, Hw2Vars>>

\* cart_get_one: None for an absent cart, else a recalculated view.
Hw45CartGetOne(w) ==
    /\ Hw45
    /\ Step
    /\ \E id \in w.cartIds :
         IF ~DictHas(db.carts, id)
         THEN ret' = Call("cart_get_one", id, NoneEntity, NoneEntity)
         ELSE \E info \in CartViews(backend, db, id) :
                ret' = Call("cart_get_one", id, NoneEntity, CartEntity(id, info))
    /\ UNCHANGED <<backend, txn, held, db, Hw2Vars>>

\* The functions that map every cart id to one of its possible views.
ViewChoices(engine, d) ==
    {v \in [DictKeys(d.carts) -> UNION {CartViews(engine, d, c) : c \in DictKeys(d.carts)}] :
        \A c \in DictKeys(d.carts) : v[c] \in CartViews(engine, d, c)}

\* g = cart_get_many(...)
Hw45CartGetMany(w) ==
    /\ Hw45
    /\ Count
    /\ \E q \in CartQueries(w) : GenCall("cart_get_many", q)
    /\ UNCHANGED <<backend, txn, held, db, Hw2Vars, issued>>

\* next(g) on the generator of cart_get_many: the first one selects the
\* cart ids, each one recalculates the carts from the next id on, with one
\* SELECT per cart on the database as it is then, up to a cart that passes
\* the filters.
Hw45CartGetManyNext ==
    /\ Hw45
    /\ GenOpen(iter)
    /\ iter.op = "cart_get_many"
    /\ \E scan \in ScanOrders(backend, db.carts), view \in ViewChoices(backend, db) :
         LET cart_ids == IF iter.status = "new" THEN cart_get_many_ids(scan, iter.q)
                         ELSE iter.page
             r == cart_get_many_loop(cart_ids, view, iter.pos + 1, iter.q)
         IN IF r.yield = NoneEntity THEN GenReturn(iter.out)
            ELSE GenYield([iter EXCEPT !.page = cart_ids, !.pos = r.pos,
                                      !.out = Append(@, r.yield)])
    /\ UNCHANGED <<backend, txn, held, db, Hw2Vars, issued, steps>>

\* The end of cart_update, cart_upsert, cart_patch and cart_add_item: the
\* view recalculated in the same session, unless the call failed.
Hw45CartReturn(op, id, arg, r) ==
    /\ db' = r.db
    /\ IF r.res # Ok THEN ret' = Call(op, id, arg, r.res)
       ELSE \E info \in CartViews(backend, r.db, id) :
              ret' = Call(op, id, arg, CartEntity(id, info))

Hw45CartUpdate(w) ==
    /\ Hw45
    /\ Step
    /\ \E id \in w.cartIds, info \in CartInfos(w) :
         Hw45CartReturn("cart_update", id, info, cart_update(backend, db, id, info))
    /\ UNCHANGED <<backend, txn, held, Hw2Vars>>

Hw45CartUpsert(w) ==
    /\ Hw45
    /\ Step
    /\ \E id \in w.cartIds, info \in CartInfos(w) :
         Hw45CartReturn("cart_upsert", id, info, cart_upsert(backend, db, id, info))
    /\ UNCHANGED <<backend, txn, held, Hw2Vars>>

Hw45CartPatch(w) ==
    /\ Hw45
    /\ Step
    /\ \E id \in w.cartIds, patch_info \in PatchCartInfos(w) :
         Hw45CartReturn("cart_patch", id, patch_info,
                        cart_patch(backend, db, id, patch_info))
    /\ UNCHANGED <<backend, txn, held, Hw2Vars>>

Hw45CartAddItem(w) ==
    /\ Hw45
    /\ Step
    /\ \E cart_id \in w.cartIds, item_id \in w.lineIds :
         LET r == cart_add_item(backend, db, cart_id, item_id) IN
         /\ \A k \in 1..Len(r.db.cart_items) : r.db.cart_items[k].quantity <= MaxQty
         /\ Cardinality({k \in 1..Len(r.db.cart_items) :
                            r.db.cart_items[k].cart_id = cart_id}) <= MaxLines
         /\ Hw45CartReturn("cart_add_item", cart_id, item_id, r)
    /\ UNCHANGED <<backend, txn, held, Hw2Vars>>

Hw45Next(w) ==
    \/ Hw45ItemAdd(w)
    \/ Hw45ItemDelete(w)
    \/ Hw45ItemGetOne(w)
    \/ Hw45ItemGetMany(w)
    \/ Hw45ItemGetManyNext
    \/ Hw45ItemUpdate(w)
    \/ Hw45ItemUpsert(w)
    \/ Hw45ItemPatch(w)
    \/ Hw45CartAddEmpty(w)
    \/ Hw45CartGetOne(w)
    \/ Hw45CartGetMany(w)
    \/ Hw45CartGetManyNext
    \/ Hw45CartUpdate(w)
    \/ Hw45CartUpsert(w)
    \/ Hw45CartPatch(w)
    \/ Hw45CartAddItem(w)

(***************************************************************************)
(* hw45 under concurrent callers.  Every store function opens its own      *)
(* session with SessionLocal.begin(), so two calls that run at the same    *)
(* time (two worker processes, or two threads calling the store) are two   *)
(* transactions of the database.  create_engine sets no isolation level,   *)
(* so PostgreSQL runs them at READ COMMITTED: a statement reads the        *)
(* committed rows and the rows its own transaction wrote; a statement that *)
(* writes a row another open transaction wrote waits for that transaction  *)
(* to end; an INSERT of a key that is committed fails.  An UPDATE or       *)
(* DELETE finds its rows in the snapshot taken when the statement starts:  *)
(* after a wait it acts on the row as committed when the other transaction *)
(* updated it, skips it when the other transaction deleted it, and does    *)
(* not see a row inserted meanwhile, be it under the same key.  txn[t] is  *)
(* the call transaction t is running: the statement it is at (pc), its     *)
(* arguments, what session.get returned (found, quantity, loaded), the     *)
(* keys of the rows a waiting statement found and that were not deleted    *)
(* since (targets), the rows it wrote and has not committed (writes), its  *)
(* result, and before, what the database held for its record when the call *)
(* began.                                                                  *)
(***************************************************************************)
Txns == {1, 2}

StaleDataError == [error |-> "StaleDataError"]

Idle ==
    [pc |-> "idle", op |-> "none", id |-> NoId, item_id |-> NoId,
     info |-> NoneEntity, found |-> FALSE, quantity |-> 0, loaded |-> NoneEntity,
     targets |-> {}, before |-> 0, writes |-> <<>>, res |-> NoneEntity]

\* One written row: the table, the statement, the key (a, b) and the row.
Write(tab, kind, a, b, row) ==
    [tab |-> tab, kind |-> kind, a |-> a, b |-> b, row |-> row]

HasLineRow(d, cart_id, item_id) ==
    \E k \in 1..Len(d.cart_items) :
        d.cart_items[k].cart_id = cart_id /\ d.cart_items[k].item_id = item_id

LineRow(d, cart_id, item_id) ==
    CHOOSE ci \in {d.cart_items[k] : k \in 1..Len(d.cart_items)} :
        ci.cart_id = cart_id /\ ci.item_id = item_id

\* The database with one written row applied.
ApplyWrite(d, wr) ==
    IF wr.tab = "items"
    THEN [d EXCEPT !.items = DictSet(@, wr.a, wr.row)]
    ELSE IF wr.tab = "carts"
    THEN [d EXCEPT !.carts = Append(@, wr.row)]
    ELSE IF wr.kind = "insert"
    THEN [d EXCEPT !.cart_items = Append(@, wr.row)]
    ELSE IF wr.kind = "update"
    THEN [d EXCEPT !.cart_items =
            [k \in 1..Len(@) |->
               IF @[k].cart_id = wr.a /\ @[k].item_id = wr.b THEN wr.row ELSE @[k]]]
    ELSE [d EXCEPT !.cart_items =
            SelectSeq(@, LAMBDA ci : ~(ci.cart_id = wr.a /\ ci.item_id = wr.b))]

RECURSIVE ApplyWrites(_, _)
ApplyWrites(d, writes) ==
    IF writes = <<>> THEN d
    ELSE ApplyWrites(ApplyWrite(d, Head(writes)), Tail(writes))

\* What the statements of transaction t read: the committed rows and its own.
Visible(t) == ApplyWrites(db, txn[t].writes)

\* Another open transaction has written the row with this key.
Locked(t, tab, a, b) ==
    \E u \in Txns \ {t} : \E k \in 1..Len(txn[u].writes) :
        /\ txn[u].writes[k].tab = tab
        /\ txn[u].writes[k].a = a
        /\ txn[u].writes[k].b = b

\* The call of t goes on with the statement pc.
Goes(t, pc, writes) ==
    /\ txn' = [txn EXCEPT ![t].pc = pc, ![t].targets = {},
                          ![t].writes = txn[t].writes \o writes]
    /\ UNCHANGED db

\* The call of t ends without a commit: None, or an exception that rolls
\* the transaction back.
Ends(t, res) ==
    /\ txn' = [txn EXCEPT ![t].pc = "done", ![t].targets = {}, ![t].writes = <<>>,
                          ![t].res = res]
    /\ UNCHANGED db

\* The lines of the cart that the writes delete.
DeletedLines(writes, cart_id) ==
    {writes[k].b : k \in {j \in 1..Len(writes) : /\ writes[j].tab = "cart_items"
                                                 /\ writes[j].kind = "delete"
                                                 /\ writes[j].a = cart_id}}

\* The with block of t ends: COMMIT.  The rows it deleted are gone for the
\* statements that wait for them.
Commits(t) ==
    /\ db' = Visible(t)
    /\ txn' = [u \in Txns |->
                IF u = t THEN [txn[t] EXCEPT !.pc = "done", !.writes = <<>>]
                ELSE [txn[u] EXCEPT
                        !.targets = @ \ DeletedLines(txn[t].writes, txn[u].id)]]

\* The call of t has its result and goes on to the end of its with block.
Returns(t, res) ==
    /\ txn' = [txn EXCEPT ![t].pc = "commit", ![t].res = res]
    /\ UNCHANGED db

\* The call of t waits for the rows with these keys.
Waits(t, pc, targets) ==
    /\ txn' = [txn EXCEPT ![t].pc = pc, ![t].targets = targets]
    /\ UNCHANGED db

TxnFrame == UNCHANGED <<backend, held, iter, Hw2Vars, ret, issued, steps>>

Concurrent == backend = "postgresql"

\* cart_add_item, session.get(CartOrm, cart_id)
TxnCartAddItemGetCart(t, w) ==
    /\ Concurrent
    /\ txn[t].pc = "idle"
    /\ \E cart_id \in w.cartIds, item_id \in w.lineIds :
         LET call == [Idle EXCEPT !.op = "cart_add_item", !.id = cart_id,
                                  !.item_id = item_id,
                                  !.before = IF HasLineRow(db, cart_id, item_id)
                                             THEN LineRow(db, cart_id, item_id).quantity
                                             ELSE 0]
         IN txn' = [txn EXCEPT ![t] =
                      IF DictHas(db.carts, cart_id)
                      THEN [call EXCEPT !.pc = "get_line"]
                      ELSE [call EXCEPT !.pc = "done"]]
    /\ UNCHANGED db
    /\ TxnFrame

\* cart_add_item, session.get(CartItemOrm, ...)
TxnCartAddItemGetLine(t) ==
    /\ Concurrent
    /\ txn[t].op = "cart_add_item"
    /\ txn[t].pc = "get_line"
    /\ LET has == HasLineRow(db, txn[t].id, txn[t].item_id) IN
       txn' = [txn EXCEPT ![t].pc = "flush", ![t].found = has,
                          ![t].quantity = IF has
                                          THEN LineRow(db, txn[t].id, txn[t].item_id).quantity
                                          ELSE 0]
    /\ UNCHANGED db
    /\ TxnFrame

\* cart_add_item, session.flush(): the INSERT of the new line, or the
\* UPDATE that sets the quantity to the one read plus one.  The UPDATE of a
\* row that is gone matches no row (StaleDataError); the UPDATE of a row
\* another transaction has written waits.
TxnCartAddItemFlush(t) ==
    /\ Concurrent
    /\ txn[t].op = "cart_add_item"
    /\ txn[t].pc = "flush"
    /\ txn[t].quantity + 1 <= MaxQty
    /\ LET row == [cart_id |-> txn[t].id, item_id |-> txn[t].item_id,
                   quantity |-> txn[t].quantity + 1]
           has == HasLineRow(db, txn[t].id, txn[t].item_id)
           locked == Locked(t, "cart_items", txn[t].id, txn[t].item_id)
       IN IF txn[t].found
          THEN IF ~has THEN Ends(t, StaleDataError)
               ELSE IF locked THEN Waits(t, "flush_wait", {txn[t].item_id})
               ELSE Goes(t, "return", <<Write("cart_items", "update", txn[t].id,
                                               txn[t].item_id, row)>>)
          ELSE /\ ~locked
               /\ IF has \/ ~DictHas(db.items, txn[t].item_id)
                  THEN Ends(t, IntegrityError)
                  ELSE Goes(t, "return", <<Write("cart_items", "insert", txn[t].id,
                                                  txn[t].item_id, row)>>)
    /\ TxnFrame

\* cart_add_item, the UPDATE after its wait: the transaction that had
\* written the row has ended.
TxnCartAddItemFlushWake(t) ==
    /\ Concurrent
    /\ txn[t].op = "cart_add_item"
    /\ txn[t].pc = "flush_wait"
    /\ ~Locked(t, "cart_items", txn[t].id, txn[t].item_id)
    /\ IF txn[t].targets = {} THEN Ends(t, StaleDataError)
       ELSE Goes(t, "return",
                 <<Write("cart_items", "update", txn[t].id, txn[t].item_id,
                         [cart_id |-> txn[t].id, item_id |-> txn[t].item_id,
                          quantity |-> txn[t].quantity + 1])>>)
    /\ TxnFrame

\* cart_add_item and cart_upsert, _cart_recalculate_by_id
TxnCartReturn(t) ==
    /\ Concurrent
    /\ txn[t].op \in {"cart_add_item", "cart_upsert"}
    /\ txn[t].pc = "return"
    /\ \E info \in CartViews(backend, Visible(t), txn[t].id) :
         Returns(t, CartEntity(txn[t].id, info))
    /\ TxnFrame

\* The end of the with block of SessionLocal.begin(): COMMIT.
TxnCommit(t) ==
    /\ Concurrent
    /\ txn[t].pc = "commit"
    /\ Commits(t)
    /\ TxnFrame

\* item_upsert, session.get(ItemOrm, id)
TxnItemUpsertGet(t, w) ==
    /\ Concurrent
    /\ txn[t].pc = "idle"
    /\ \E id \in w.itemIds, info \in ItemInfos :
         txn' = [txn EXCEPT ![t] =
                   [Idle EXCEPT !.op = "item_upsert", !.id = id, !.info = info,
                                !.pc = "flush", !.found = DictHas(db.items, id),
                                !.loaded = IF DictHas(db.items, id)
                                           THEN DictGet(db.items, id)
                                           ELSE NoneEntity,
                                !.before = IF DictHas(db.items, id) THEN 1 ELSE 0]]
    /\ UNCHANGED db
    /\ TxnFrame

\* The row with the attributes that the call has set to another value than
\* the one loaded; the flush sends an UPDATE for these columns only.
ChangedItemColumns(row, loaded, info) ==
    [row EXCEPT !.name = IF info.name # loaded.name THEN info.name ELSE @,
                !.price = IF info.price # loaded.price THEN info.price ELSE @,
                !.deleted = IF info.deleted # loaded.deleted THEN info.deleted ELSE @]

\* item_upsert, session.flush(): INSERT when get found no row; else UPDATE
\* of the columns set to a new value, on the row as it is committed, and no
\* statement at all when no column was.
TxnItemUpsertFlush(t) ==
    /\ Concurrent
    /\ txn[t].op = "item_upsert"
    /\ txn[t].pc = "flush"
    /\ IF txn[t].found
       THEN IF InfoOfRow(txn[t].loaded) = txn[t].info THEN Goes(t, "return", <<>>)
            ELSE /\ ~Locked(t, "items", txn[t].id, NoId)
                 /\ Goes(t, "return",
                         <<Write("items", "update", txn[t].id, NoId,
                                 ChangedItemColumns(DictGet(db.items, txn[t].id),
                                                    txn[t].loaded, txn[t].info))>>)
       ELSE /\ ~Locked(t, "items", txn[t].id, NoId)
            /\ IF DictHas(db.items, txn[t].id)
               THEN Ends(t, IntegrityError)
               ELSE Goes(t, "return",
                         <<Write("items", "insert", txn[t].id, NoId,
                                 ItemRow(txn[t].id, txn[t].info))>>)
    /\ TxnFrame

\* item_upsert, session.refresh(orm): the SELECT of the row.
TxnItemUpsertReturn(t) ==
    /\ Concurrent
    /\ txn[t].op = "item_upsert"
    /\ txn[t].pc = "return"
    /\ Returns(t, to_item_entity(DictGet(Visible(t).items, txn[t].id)))
    /\ TxnFrame

\* cart_upsert, session.get(CartOrm, id)
TxnCartUpsertGet(t, w) ==
    /\ Concurrent
    /\ txn[t].pc = "idle"
    /\ \E id \in w.cartIds, info \in CartInfos(w) :
         txn' = [txn EXCEPT ![t] =
                   [Idle EXCEPT !.op = "cart_upsert", !.id = id, !.info = info,
                                !.found = DictHas(db.carts, id),
                                !.before = IF DictHas(db.carts, id) THEN 1 ELSE 0,
                                !.pc = IF DictHas(db.carts, id)
                                       THEN "delete_items" ELSE "flush_cart"]]
    /\ UNCHANGED db
    /\ TxnFrame

\* cart_upsert, session.add(cart) and session.flush(): INSERT INTO carts.
TxnCartUpsertFlushCart(t) ==
    /\ Concurrent
    /\ txn[t].op = "cart_upsert"
    /\ txn[t].pc = "flush_cart"
    /\ ~Locked(t, "carts", txn[t].id, NoId)
    /\ IF DictHas(db.carts, txn[t].id)
       THEN Ends(t, IntegrityError)
       ELSE Goes(t, "delete_items",
                 <<Write("carts", "insert", txn[t].id, NoId, [id |-> txn[t].id])>>)
    /\ TxnFrame

\* The DELETE of the lines with these item ids.
DeletesLines(t, targets) ==
    LET mine == SelectSeq(db.cart_items,
                          LAMBDA ci : ci.cart_id = txn[t].id /\ ci.item_id \in targets)
    IN Goes(t, "insert_items",
            [k \in 1..Len(mine) |->
               Write("cart_items", "delete", txn[t].id, mine[k].item_id, NoneEntity)])

\* cart_upsert, _cart_set_items: DELETE FROM cart_items WHERE cart_id = :id.
\* It waits when another transaction has written one of the lines it finds.
TxnCartUpsertDeleteItems(t) ==
    /\ Concurrent
    /\ txn[t].op = "cart_upsert"
    /\ txn[t].pc = "delete_items"
    /\ LET targets == {db.cart_items[k].item_id :
                         k \in {j \in 1..Len(db.cart_items) :
                                  db.cart_items[j].cart_id = txn[t].id}}
       IN IF \E i \in targets : Locked(t, "cart_items", txn[t].id, i)
          THEN Waits(t, "delete_wait", targets)
          ELSE DeletesLines(t, targets)
    /\ TxnFrame

\* cart_upsert, the DELETE after its wait: it deletes the lines it had
\* found that are still there, not the lines inserted since.
TxnCartUpsertDeleteWake(t) ==
    /\ Concurrent
    /\ txn[t].op = "cart_upsert"
    /\ txn[t].pc = "delete_wait"
    /\ \A i \in txn[t].targets : ~Locked(t, "cart_items", txn[t].id, i)
    /\ DeletesLines(t, txn[t].targets)
    /\ TxnFrame

\* cart_upsert, the session.add of every line and session.flush(): one
\* INSERT INTO cart_items per line.
TxnCartUpsertInsertItems(t) ==
    /\ Concurrent
    /\ txn[t].op = "cart_upsert"
    /\ txn[t].pc = "insert_items"
    /\ LET items == txn[t].info.items IN
       /\ \A k \in 1..Len(items) : ~Locked(t, "cart_items", txn[t].id, items[k].id)
       /\ IF \/ ~SetItemsOk(backend, db, items)
             \/ \E k \in 1..Len(items) : HasLineRow(Visible(t), txn[t].id, items[k].id)
          THEN Ends(t, IntegrityError)
          ELSE Goes(t, "return",
                    [k \in 1..Len(items) |->
                       Write("cart_items", "insert", txn[t].id, items[k].id,
                             [cart_id |-> txn[t].id, item_id |-> items[k].id,
                              quantity |-> items[k].quantity])])
    /\ TxnFrame

\* No call is running in a transaction of its own.
Quiet == \A t \in Txns : txn[t].pc = "idle"

\* Init: the stores as the modules create them, under one of the engines.
InitStores ==
    /\ id_generator = 0
    /\ items_data = <<>>
    /\ carts_data = <<>>
    /\ db = EmptyDb
    /\ ret = Call("init", NoId, NoneEntity, NoneEntity)
    /\ issued = <<>>
    /\ steps = 0
    /\ txn = [t \in Txns |-> Idle]
    /\ held = NoHeld
    /\ iter = NoGen

Init == backend \in {"hw2", "sqlite", "postgresql"} /\ InitStores

InitHw2 == backend = "hw2" /\ InitStores

InitHw45 == backend \in {"sqlite", "postgresql"} /\ InitStores

\* CartScope: two items and one cart that requests fill with up to two
\* lines of quantity 2; add_item adds lines of quantity 1 and increments.
CartScope ==
    [itemIds |-> {0, 1}, cartIds |-> {2}, lineIds |-> {0, 1},
     reqNames |-> {"R"}, reqAvailable |-> {TRUE}, reqPrices |-> {0},
     quantities |-> {2}, maxLines |-> 2,
     itemOffsets |-> {0}, itemLimits |-> {1}, itemMinPrices |-> {NoneNum},
     itemMaxPrices |-> {NoneNum},
     offsets |-> {0}, limits |-> {1}, minPrices |-> {NoneNum},
     maxPrices |-> {NoneNum}, minQuantities |-> {NoneNum},
     maxQuantities |-> {NoneNum}]

\* Spec: both stores; SpecHw2: the in-memory store alone.
Next == Hw2Next(CartScope) \/ Hw45Next(CartScope)

Spec == Init /\ [][Next]_vars

NextHw2 == Hw2Next(CartScope)

SpecHw2 == InitHw2 /\ [][NextHw2]_vars

\* ListScope: one item, two carts of at most one line each, and listings
\* with every combination of a page and the four filters.
ListScope ==
    [itemIds |-> {0}, cartIds |-> {1, 2}, lineIds |-> {0, 1},
     reqNames |-> {"R"}, reqAvailable |-> {TRUE}, reqPrices |-> {0},
     quantities |-> {1, 2}, maxLines |-> 1,
     itemOffsets |-> {0}, itemLimits |-> {2}, itemMinPrices |-> {NoneNum},
     itemMaxPrices |-> {NoneNum},
     offsets |-> {0, 1}, limits |-> {1, 2}, minPrices |-> {NoneNum, Some(10)},
     maxPrices |-> {NoneNum, Some(5)}, minQuantities |-> {NoneNum, Some(2)},
     maxQuantities |-> {NoneNum, Some(1)}]

\* SpecList: the in-memory store under ListScope; SpecDbList: the
\* relational store under ListScope.
NextList == Hw2Next(ListScope)

SpecList == InitHw2 /\ [][NextList]_vars

NextDbList == Hw45Next(ListScope)

SpecDbList == InitHw45 /\ [][NextDbList]_vars

\* ItemScope: two item ids, listings of the items with every combination
\* of a page, the two price bounds and show_deleted, and one cart.
ItemScope ==
    [itemIds |-> {0, 1}, cartIds |-> {2}, lineIds |-> {0},
     reqNames |-> {"R"}, reqAvailable |-> {TRUE}, reqPrices |-> {0},
     quantities |-> {2}, maxLines |-> 1,
     itemOffsets |-> {0, 1}, itemLimits |-> {1, 2}, itemMinPrices |-> {NoneNum, Some(10)},
     itemMaxPrices |-> {NoneNum, Some(5)},
     offsets |-> {0}, limits |-> {1}, minPrices |-> {NoneNum},
     maxPrices |-> {NoneNum}, minQuantities |-> {NoneNum},
     maxQuantities |-> {NoneNum}]

\* SpecItems: the in-memory store under ItemScope.
NextItems == Hw2Next(ItemScope)

SpecItems == InitHw2 /\ [][NextItems]_vars

(***************************************************************************)
(* The PATCH /cart/{id} handler: the request body is converted by          *)
(* PatchCartRequest.as_patch_cart_info and handed to the store's patch.    *)
(***************************************************************************)
\* [...] if self.items else None: an absent items field and an empty list
\* both give None.
as_patch_cart_info(request) ==
    [items |-> IF request.items # NoneItems /\ request.items # <<>>
               THEN request.items ELSE NoneItems,
     price |-> request.price]

PatchCartRequests(w) ==
    {[items |-> l, price |-> NoneNum] : l \in LineSeqs(w) \cup {NoneItems}}

Hw2PatchCart(w) ==
    /\ backend = "hw2"
    /\ Step
    /\ \E id \in w.cartIds, info \in PatchCartRequests(w) :
         LET r == cart_queries_patch(items_data, carts_data, id,
                                     as_patch_cart_info(info)) IN
         /\ carts_data' = r.carts
         /\ ret' = Call("patch_cart", id, info, r.res)
    /\ held' = HeldAfter(ret', items_data)
    /\ UNCHANGED <<backend, txn, db, id_generator, items_data>>

Hw45PatchCart(w) ==
    /\ Hw45
    /\ Step
    /\ \E id \in w.cartIds, info \in PatchCartRequests(w) :
         Hw45CartReturn("patch_cart", id, info,
                        cart_patch(backend, db, id, as_patch_cart_info(info)))
    /\ UNCHANGED <<backend, txn, held, Hw2Vars>>

\* SpecApi: the store calls of Spec and the PATCH handler.
NextApi == Next \/ Hw2PatchCart(CartScope) \/ Hw45PatchCart(CartScope)

SpecApi == Init /\ [][NextApi]_vars

\* TxnScope: one item id, one cart id and lines of that item.
TxnScope ==
    [itemIds |-> {1}, cartIds |-> {1}, lineIds |-> {1},
     reqNames |-> {"R"}, reqAvailable |-> {TRUE}, reqPrices |-> {0},
     quantities |-> {1}, maxLines |-> 1,
     itemOffsets |-> {0}, itemLimits |-> {1}, itemMinPrices |-> {NoneNum},
     itemMaxPrices |-> {NoneNum},
     offsets |-> {0}, limits |-> {1}, minPrices |-> {NoneNum},
     maxPrices |-> {NoneNum}, minQuantities |-> {NoneNum},
     maxQuantities |-> {NoneNum}]

\* SpecTxn: PostgreSQL; calls that fill the database one after the other,
\* then two calls of cart_add_item, item_upsert or cart_upsert that run
\* at the same time.
InitTxn == backend = "postgresql" /\ InitStores

NextTxn ==
    \/ Quiet /\ Hw45ItemAdd(TxnScope)
    \/ Quiet /\ Hw45CartAddEmpty(TxnScope)
    \/ Quiet /\ Hw45CartAddItem(TxnScope)
    \/ \E t \in Txns : TxnCartAddItemGetCart(t, TxnScope)
    \/ \E t \in Txns : TxnCartAddItemGetLine(t)
    \/ \E t \in Txns : TxnCartAddItemFlush(t)
    \/ \E t \in Txns : TxnCartAddItemFlushWake(t)
    \/ \E t \in Txns : TxnCartReturn(t)
    \/ \E t \in Txns : TxnCommit(t)
    \/ \E t \in Txns : TxnItemUpsertGet(t, TxnScope)
    \/ \E t \in Txns : TxnItemUpsertFlush(t)
    \/ \E t \in Txns : TxnItemUpsertReturn(t)
    \/ \E t \in Txns : TxnCartUpsertGet(t, TxnScope)
    \/ \E t \in Txns : TxnCartUpsertFlushCart(t)
    \/ \E t \in Txns : TxnCartUpsertDeleteItems(t)
    \/ \E t \in Txns : TxnCartUpsertDeleteWake(t)
    \/ \E t \in Txns : TxnCartUpsertInsertItems(t)

SpecTxn == InitTxn /\ [][NextTxn]_vars

(***************************************************************************)
(* The two stores side by side: the same call with the same arguments is   *)
(* made on the in-memory store and on the relational store, and ret keeps  *)
(* both results.  The calls are those that are given the id they act on.   *)
(***************************************************************************)
\* What ret keeps of a call made on both stores.
BothCall(op, id, arg, mem, rel) ==
    [op |-> op, id |-> id, arg |-> arg, res |-> [mem |-> mem, rel |-> rel]]

\* The result of a relational cart call: the view recalculated from the
\* database after the call, unless the call failed.
RelCartResults(r, id) ==
    IF r.res # Ok THEN {r.res}
    ELSE {CartEntity(id, info) : info \in CartViews(backend, r.db, id)}

BothFrame == UNCHANGED <<backend, txn, held, id_generator>>

BothItemUpsert(w) ==
    /\ Hw45
    /\ Step
    /\ \E id \in w.itemIds, info \in ItemInfos :
         LET m == item_queries_upsert(items_data, id, info)
             r == item_upsert(db, id, info)
         IN /\ items_data' = m.data
            /\ db' = r.db
            /\ ret' = BothCall("item_upsert", id, info, m.res, r.res)
    /\ UNCHANGED carts_data
    /\ BothFrame

BothItemUpdate(w) ==
    /\ Hw45
    /\ Step
    /\ \E id \in w.itemIds, info \in ItemInfos :
         LET m == item_queries_update(items_data, id, info)
             r == item_update(db, id, info)
         IN /\ items_data' = m.data
            /\ db' = r.db
            /\ ret' = BothCall("item_update", id, info, m.res, r.res)
    /\ UNCHANGED carts_data
    /\ BothFrame

BothItemPatch(w) ==
    /\ Hw45
    /\ Step
    /\ \E id \in w.itemIds, patch_info \in PatchItemInfos :
         LET m == item_queries_patch(items_data, id, patch_info)
             r == item_patch(db, id, patch_info)
         IN /\ items_data' = m.data
            /\ db' = r.db
            /\ ret' = BothCall("item_patch", id, patch_info, m.res, r.res)
    /\ UNCHANGED carts_data
    /\ BothFrame

BothItemDelete(w) ==
    /\ Hw45
    /\ Step
    /\ \E id \in w.itemIds :
         /\ items_data' = item_queries_delete(items_data, id)
         /\ db' = item_delete(db, id)
         /\ ret' = BothCall("item_delete", id, NoneEntity, NoneEntity, NoneEntity)
    /\ UNCHANGED carts_data
    /\ BothFrame

BothItemGetOne(w) ==
    /\ Hw45
    /\ Step
    /\ \E id \in w.itemIds :
         ret' = BothCall("item_get_one", id, NoneEntity,
                         item_queries_get_one(items_data, id), item_get_one(db, id))
    /\ UNCHANGED <<items_data, carts_data, db>>
    /\ BothFrame

BothCartGetOne(w) ==
    /\ Hw45
    /\ Step
    /\ \E id \in w.cartIds :
         \E rel \in IF DictHas(db.carts, id)
                    THEN {CartEntity(id, info) : info \in CartViews(backend, db, id)}
                    ELSE {NoneEntity} :
           ret' = BothCall("cart_get_one", id, NoneEntity,
                           cart_queries_get_one(items_data, carts_data, id), rel)
    /\ UNCHANGED <<items_data, carts_data, db>>
    /\ BothFrame

BothCartUpdate(w) ==
    /\ Hw45
    /\ Step
    /\ \E id \in w.cartIds, info \in CartInfos(w) :
         LET m == cart_queries_update(carts_data, id, info)
             r == cart_update(backend, db, id, info)
         IN /\ carts_data' = m.carts
            /\ db' = r.db
            /\ \E rel \in RelCartResults(r, id) :
                 ret' = BothCall("cart_update", id, info, m.res, rel)
    /\ UNCHANGED items_data
    /\ BothFrame

BothCartUpsert(w) ==
    /\ Hw45
    /\ Step
    /\ \E id \in w.cartIds, info \in CartInfos(w) :
         LET m == cart_queries_upsert(carts_data, id, info)
             r == cart_upsert(backend, db, id, info)
         IN /\ carts_data' = m.carts
            /\ db' = r.db
            /\ \E rel \in RelCartResults(r, id) :
                 ret' = BothCall("cart_upsert", id, info, m.res, rel)
    /\ UNCHANGED items_data
    /\ BothFrame

BothCartPatch(w) ==
    /\ Hw45
    /\ Step
    /\ \E id \in w.cartIds, patch_info \in PatchCartInfos(w) :
         LET m == cart_queries_patch(items_data, carts_data, id, patch_info)
             r == cart_patch(backend, db, id, patch_info)
         IN /\ carts_data' = m.carts
            /\ db' = r.db
            /\ \E rel \in RelCartResults(r, id) :
                 ret' = BothCall("cart_patch", id, patch_info, m.res, rel)
    /\ UNCHANGED items_data
    /\ BothFrame

BothCartAddItem(w) ==
    /\ Hw45
    /\ Step
    /\ \E cart_id \in w.cartIds, item_id \in w.lineIds :
         LET m == cart_queries_add_item(items_data, carts_data, cart_id, item_id)
             r == cart_add_item(backend, db, cart_id, item_id)
         IN /\ m.res # NoneEntity => WithinBounds(m.res.info)
            /\ carts_data' = m.carts
            /\ db' = r.db
            /\ \E rel \in RelCartResults(r, cart_id) :
                 ret' = BothCall("cart_add_item", cart_id, item_id, m.res, rel)
    /\ UNCHANGED items_data
    /\ BothFrame

\* SpecBoth: the same calls on both stores, under CartScope.
NextBoth ==
    \/ BothItemUpsert(CartScope)
    \/ BothItemUpdate(CartScope)
    \/ BothItemPatch(CartScope)
    \/ BothItemDelete(CartScope)
    \/ BothItemGetOne(CartScope)
    \/ BothCartGetOne(CartScope)
    \/ BothCartUpdate(CartScope)
    \/ BothCartUpsert(CartScope)
    \/ BothCartPatch(CartScope)
    \/ BothCartAddItem(CartScope)

SpecBoth == InitHw45 /\ [][NextBoth]_vars

(***************************************************************************)
(* The callers of the in-memory store that hold on to what a call returned. *)
(***************************************************************************)
\* A caller keeps the entity the last cart call returned.
Hw2Keep ==
    /\ backend = "hw2"
    /\ held = NoHeld
    /\ ret.op \in {"cart_add_empty", "cart_get_one", "cart_update", "cart_upsert",
                   "cart_patch", "cart_add_item"}
    /\ ret.res # NoneEntity
    /\ held' = [op |-> ret.op, entity |-> ret.res, shared |-> ret.op # "cart_get_one"]
    /\ UNCHANGED <<backend, txn, iter, db, id_generator, items_data, carts_data, ret,
                   issued, steps>>

\* The caller writes 7 into the price of the entity it holds; the write
\* lands in carts_data when the entity's info is the stored object.
Hw2CallerWrites ==
    /\ backend = "hw2"
    /\ held.entity # NoneEntity
    /\ held.entity.info.price # 7
    /\ held' = [held EXCEPT !.entity.info.price = 7]
    /\ carts_data' = IF held.shared
                     THEN [carts_data EXCEPT ![DictIndex(carts_data, held.entity.id)].price = 7]
                     ELSE carts_data
    /\ UNCHANGED <<backend, txn, iter, db, id_generator, items_data, ret, issued, steps>>

\* SpecHeld: the in-memory store under CartScope and a caller that keeps
\* one returned entity.
NextHeld == Hw2Next(CartScope) \/ Hw2Keep \/ Hw2CallerWrites

SpecHeld == InitHw2 /\ [][NextHeld]_vars

(***************************************************************************)
(* What the claims speak of, stated on the stored data without the store   *)
(* functions.                                                              *)
(***************************************************************************)
\* The step is the call of the get_many named op or a next() on its
\* generator.
GetManyStep(op) ==
    \/ steps' # steps /\ ret'.op = "generator" /\ iter'.op = op
    \/ steps' = steps /\ iter.op = op /\ iter' # iter

InMemory == backend = "hw2"

\* The item records and the carts of the store in use.
ItemRows == IF InMemory THEN items_data ELSE db.items

CartIdsNow == IF InMemory THEN DictKeys(carts_data) ELSE DictKeys(db.carts)

\* The item id exists and is not soft-deleted.
Active(rows, id) == \E k \in 1..Len(rows) : rows[k].id = id /\ ~rows[k].deleted

SoftDeleted(rows, id) == \E k \in 1..Len(rows) : rows[k].id = id /\ rows[k].deleted

RowOf(rows, id) == CHOOSE r \in {rows[k] : k \in 1..Len(rows)} : r.id = id

RECURSIVE SumOf(_, _)
SumOf(f, S) ==
    IF S = {} THEN 0
    ELSE LET k == CHOOSE x \in S : TRUE IN f[k] + SumOf(f, S \ {k})

\* The sum over the lines whose item is active of item price x quantity.
AvailablePrice(rows, lines) ==
    SumOf([k \in 1..Len(lines) |-> RowOf(rows, lines[k].id).price * lines[k].quantity],
          {k \in 1..Len(lines) : Active(rows, lines[k].id)})

\* The view shows the lines one for one, in order, with their quantity,
\* the availability and current name of their item, and the price.
ShowsLines(view, rows, lines) ==
    /\ Len(view.items) = Len(lines)
    /\ \A k \in 1..Len(lines) :
         /\ view.items[k].id = lines[k].id
         /\ view.items[k].quantity = lines[k].quantity
         /\ view.items[k].available = Active(rows, lines[k].id)
         /\ Active(rows, lines[k].id) =>
              view.items[k].name = RowOf(rows, lines[k].id).name
    /\ view.price = AvailablePrice(rows, lines)

(***************************************************************************)
(* C1.  In the in-memory store, after any sequence of item and cart calls, *)
(* get_one of an existing cart returns one line per stored line, in stored *)
(* order and with the stored quantity; a line is available exactly when    *)
(* its item exists and is not soft-deleted, an available line carries the  *)
(* item's current name, and the price is the sum over the available lines  *)
(* of current item price x quantity.                                       *)
(***************************************************************************)
C1_GetOneRecalculates ==
    InMemory =>
      \A c \in DictKeys(carts_data) :
        LET got == cart_queries_get_one(items_data, carts_data, c) IN
        /\ got # NoneEntity
        /\ got.id = c
        /\ ShowsLines(got.info, items_data, DictGet(carts_data, c).items)

\* get_one has returned a cart with an available and an unavailable line
\* whose stored price is not the price shown.
C1_Witness ==
    /\ InMemory
    /\ ret.op = "cart_get_one"
    /\ ret.res # NoneEntity
    /\ \E a, b \in 1..Len(ret.res.info.items) :
         /\ ret.res.info.items[a].available
         /\ ~ret.res.info.items[b].available
    /\ ret.res.info.price > 0
    /\ DictGet(carts_data, ret.id).price # ret.res.info.price

\* The last call returned a cart.
ReturnedCart(ops) ==
    /\ ret.op \in ops
    /\ ret.res # NoneEntity
    /\ ret.res # IntegrityError

(***************************************************************************)
(* C2.  update and upsert of a cart return the recomputed view, in the     *)
(* in-memory store and in the relational store: whatever price and         *)
(* available values the request carried, every returned line is available  *)
(* exactly when its item exists and is not soft-deleted, and the returned  *)
(* price is the sum over the available lines of item price x quantity.     *)
(***************************************************************************)
C2_ReplaceReturnsRecomputed ==
    ReturnedCart({"cart_update", "cart_upsert"}) =>
      /\ \A k \in 1..Len(ret.res.info.items) :
           ret.res.info.items[k].available
             = Active(ItemRows, ret.res.info.items[k].id)
      /\ ret.res.info.price = AvailablePrice(ItemRows, ret.res.info.items)

\* The stored lines of cart c that reference item id, and the lines of a
\* view that do.
StoredLinesOf(c, id) ==
    IF InMemory
    THEN Len(SelectSeq(DictGet(carts_data, c).items, LAMBDA l : l.id = id))
    ELSE Len(SelectSeq(db.cart_items, LAMBDA ci : ci.cart_id = c /\ ci.item_id = id))

ViewLinesOf(view, id) == SelectSeq(view.items, LAMBDA l : l.id = id)

\* What item get_one, the default item listing and cart get_one return now.
ItemGetOneNow(id) ==
    IF InMemory THEN item_queries_get_one(items_data, id) ELSE item_get_one(db, id)

DefaultItemQuery ==
    [offset |-> 0, limit |-> 10, min_price |-> NoneNum, max_price |-> NoneNum,
     show_deleted |-> FALSE]

DefaultItemListings ==
    IF InMemory THEN {item_queries_get_many(items_data, DefaultItemQuery)}
    ELSE {item_get_many(scan, DefaultItemQuery) : scan \in ScanOrders(backend, db.items)}

CartViewsNow(c) ==
    IF InMemory THEN {cart_queries_get_one(items_data, carts_data, c).info}
    ELSE CartViews(backend, db, c)

(***************************************************************************)
(* C3.  After delete of an existing item, item get_one of its id returns   *)
(* None and the default item listing omits it, while cart get_one still    *)
(* returns every cart line that references the id, with available false.   *)
(***************************************************************************)
C3_DeleteHidesItemKeepsLines ==
    (ret.op = "item_delete" /\ DictHas(ItemRows, ret.id)) =>
      /\ ItemGetOneNow(ret.id) = NoneEntity
      /\ \A listing \in DefaultItemListings :
           \A k \in 1..Len(listing) : listing[k].id # ret.id
      /\ \A c \in CartIdsNow : \A view \in CartViewsNow(c) :
           /\ Len(ViewLinesOf(view, ret.id)) = StoredLinesOf(c, ret.id)
           /\ \A k \in 1..Len(view.items) :
                view.items[k].id = ret.id => ~view.items[k].available

\* delete has soft-deleted an item that a cart has a line for.
C3_Witness ==
    /\ ret.op = "item_delete"
    /\ DictHas(ItemRows, ret.id)
    /\ \E c \in CartIdsNow : StoredLinesOf(c, ret.id) > 0
    /\ \E id \in DictKeys(ItemRows) : Active(ItemRows, id)

(***************************************************************************)
(* C4.  Once an item's deleted flag is true it never becomes false again:  *)
(* after delete of an id, no item store call makes get_one of that id      *)
(* return the item as active.                                              *)
(***************************************************************************)
C4_DeletedNeverReverts ==
    [][\A id \in 0..MaxId :
         SoftDeleted(ItemRows, id) => SoftDeleted(ItemRows', id)]_vars

(***************************************************************************)
(* C4, as the code has it.  A soft-deleted item stays soft-deleted under   *)
(* update, patch, delete, the listings and every cart call; it becomes     *)
(* active again only by upsert of its id with deleted false or, in the     *)
(* in-memory store, by an add whose generated id is the id of that record. *)
(***************************************************************************)
C4_DeletedRevertsOnlyByUpsertOrAdd ==
    [][\A id \in 0..MaxId :
         (SoftDeleted(ItemRows, id) /\ ~SoftDeleted(ItemRows', id)) =>
           \/ ret'.op = "item_upsert" /\ ret'.id = id /\ ~ret'.arg.deleted
           \/ InMemory /\ ret'.op = "item_add" /\ ret'.id = id]_vars

\* update or patch has been refused on a soft-deleted item, which is still
\* soft-deleted.
C4_Witness ==
    /\ ret.op \in {"item_update", "item_patch"}
    /\ ret.res = NoneEntity
    /\ SoftDeleted(ItemRows, ret.id)

\* Lines a and b have the same item ids and quantities on the positions S.
SameLinesOn(a, b, S) ==
    \A j \in S : a[j].id = b[j].id /\ a[j].quantity = b[j].quantity

\* The views cart get_one can return for cart c when the stores are items,
\* carts and d.
CartViewsIn(items, carts, d, c) ==
    IF InMemory THEN {cart_queries_get_one(items, carts, c).info}
    ELSE CartViews(backend, d, c)

\* The id and quantity of every line, in order.
IdsAndQuantities(lines) ==
    [k \in 1..Len(lines) |-> <<lines[k].id, lines[k].quantity>>]

\* The line sequences (item ids and quantities, in order) that get_one can
\* show for cart c when the stores are items, carts and d.
LinesShown(items, carts, d, c) ==
    {IdsAndQuantities(view.items) : view \in CartViewsIn(items, carts, d, c)}

\* new is old with the quantity of its one line of item_id raised by 1, or,
\* when old has no such line, old with a line of quantity 1 appended.
AddedOneTo(old, new, item_id) ==
    IF \E k \in 1..Len(old) : old[k][1] = item_id
    THEN /\ Len(new) = Len(old)
         /\ \E k \in 1..Len(old) :
              /\ old[k][1] = item_id
              /\ new[k] = <<item_id, old[k][2] + 1>>
              /\ \A j \in (1..Len(old)) \ {k} : new[j] = old[j]
    ELSE new = Append(old, <<item_id, 1>>)

\* The call has returned an entity.
ReturnsEntity(call) == call.res # NoneEntity /\ call.res # IntegrityError

(***************************************************************************)
(* C5.  add_item(cart_id, item_id) on an existing cart, in either store.   *)
(* If a line with item_id exists, that line's quantity grows by exactly 1, *)
(* no line is added or removed and the order of the lines is unchanged;    *)
(* otherwise exactly one line with quantity 1 is appended after the        *)
(* existing lines, whose quantities are unchanged.  The call returns the   *)
(* cart with these lines and the price recomputed for them.  The lines of  *)
(* a cart are those get_one shows for it.                                  *)
(***************************************************************************)
C5_AddItemIncrementsOrAppends ==
    [][(steps' # steps /\ ret'.op = "cart_add_item" /\ ret'.id \in CartIdsNow) =>
         /\ ReturnsEntity(ret')
         /\ \A old \in LinesShown(items_data, carts_data, db, ret'.id) :
              /\ AddedOneTo(old, IdsAndQuantities(ret'.res.info.items), ret'.arg)
              /\ \A new \in LinesShown(items_data', carts_data', db', ret'.id) :
                   AddedOneTo(old, new, ret'.arg)
         /\ ret'.res.info.price
              = AvailablePrice(ItemRows', ret'.res.info.items)]_vars

(***************************************************************************)
(* C6.  On a cart id that does not exist, in either store, update reports  *)
(* None and creates no cart (get_one of the id is still None), whereas     *)
(* upsert creates the cart and returns it with exactly that id; item       *)
(* update and item upsert behave the same way on an item id that does not  *)
(* exist.                                                                  *)
(***************************************************************************)
C6_UpdateRefusesUpsertCreates ==
    [][steps' # steps =>
         /\ (ret'.op = "cart_update" /\ ret'.id \notin CartIdsNow) =>
              /\ ret'.res = NoneEntity
              /\ ret'.id \notin CartIdsNow'
         /\ (ret'.op = "cart_upsert" /\ ret'.id \notin CartIdsNow) =>
              /\ ReturnsEntity(ret')
              /\ ret'.res.id = ret'.id
              /\ ret'.id \in CartIdsNow'
         /\ (ret'.op = "item_update" /\ ~DictHas(ItemRows, ret'.id)) =>
              /\ ret'.res = NoneEntity
              /\ ~DictHas(ItemRows', ret'.id)
         /\ (ret'.op = "item_upsert" /\ ~DictHas(ItemRows, ret'.id)) =>
              /\ ReturnsEntity(ret')
              /\ ret'.res.id = ret'.id
              /\ DictHas(ItemRows', ret'.id)]_vars

(***************************************************************************)
(* C7.  Item update and item patch on an id that is absent or soft-deleted *)
(* report None and leave the whole item store unchanged: a soft-deleted    *)
(* record keeps its name, its price and deleted = true.                    *)
(***************************************************************************)
C7_RefusedUpdateChangesNothing ==
    [][(ret'.op \in {"item_update", "item_patch"} /\ ~Active(ItemRows, ret'.id)) =>
         /\ ret'.res = NoneEntity
         /\ ItemRows' = ItemRows]_vars

\* patch has been refused on a soft-deleted item while another item is
\* active.
C7_Witness ==
    /\ ret.op = "item_patch"
    /\ ret.res = NoneEntity
    /\ SoftDeleted(ItemRows, ret.id)
    /\ \E id \in DictKeys(ItemRows) : Active(ItemRows, id)

\* x lies within the inclusive bounds lo and hi, None being no bound.
Within(x, lo, hi) == (lo = NoneNum \/ x >= lo[1]) /\ (hi = NoneNum \/ x <= hi[1])

\* The sum of the quantities of the lines, available or not.
QuantityOf(lines) == SumOf([k \in 1..Len(lines) |-> lines[k].quantity], 1..Len(lines))

\* The slice [offset, offset + limit) of s.
Slice(s, offset, limit) ==
    SubSeq(s, offset + 1, IF offset + limit < Len(s) THEN offset + limit ELSE Len(s))

\* The stored carts of the in-memory store that pass the filters of q, in
\* store order.
MatchingCarts(q) ==
    SelectSeq(carts_data,
              LAMBDA c : /\ Within(AvailablePrice(items_data, c.items),
                                   q.min_price, q.max_price)
                         /\ Within(QuantityOf(c.items),
                                   q.min_quantity, q.max_quantity))

(***************************************************************************)
(* C8.  In the in-memory store, cart get_many(offset, limit, min_price,    *)
(* max_price, min_quantity, max_quantity) returns exactly the slice        *)
(* [offset, offset + limit) of the carts, in store order, whose recomputed *)
(* price lies within the inclusive price bounds and whose summed line      *)
(* quantity, unavailable lines counted, lies within the inclusive quantity *)
(* bounds; every returned cart carries its recomputed view.  Stated for a  *)
(* get_many whose generator is run to its end with no other store call in  *)
(* between, as the route handler runs it.                                  *)
(***************************************************************************)
C8_GetManyFiltersThenSlices ==
    (InMemory /\ ret.op = "cart_get_many" /\ ListedAtOnce(iter)) =>
      LET page == Slice(MatchingCarts(ret.arg), ret.arg.offset, ret.arg.limit) IN
      /\ Len(ret.res) = Len(page)
      /\ \A k \in 1..Len(page) :
           /\ ret.res[k].id = page[k].id
           /\ ShowsLines(ret.res[k].info, items_data, page[k].items)

\* get_many with a price filter, offset 0 and limit 1 has returned the
\* second of the two stored carts, the first being filtered out.
C8_Witness ==
    /\ InMemory
    /\ ret.op = "cart_get_many"
    /\ ListedAtOnce(iter)
    /\ ret.arg.min_price # NoneNum
    /\ ret.arg.offset = 0
    /\ ret.arg.limit = 1
    /\ Len(carts_data) = 2
    /\ Len(ret.res) = 1
    /\ ret.res[1].id = carts_data[2].id
    /\ ret.res[1].info.price > 0

\* The carts of the relational store whose view passes the filters of q;
\* the price and the summed quantity of a view do not depend on the order
\* of its lines.
MatchingDbCarts(q) ==
    {c \in DictKeys(db.carts) :
        LET view == CHOOSE v \in CartViews(backend, db, c) : TRUE IN
        /\ Within(view.price, q.min_price, q.max_price)
        /\ Within(QuantityOf(view.items), q.min_quantity, q.max_quantity)}

(***************************************************************************)
(* C9.  In the relational store, cart_get_many applies the price and       *)
(* quantity filters first and paginates the filtered result: a cart that   *)
(* passes the filters is returned whenever offset is 0 and fewer than      *)
(* limit matching carts precede it; so with offset 0 and no more than      *)
(* limit matching carts in all, every matching cart is returned.  Stated   *)
(* for a cart_get_many whose generator is run to its end with no other     *)
(* store call in between, as the route handler runs it.                    *)
(***************************************************************************)
C9_DbFiltersThenPaginates ==
    (Hw45 /\ ret.op = "cart_get_many" /\ ListedAtOnce(iter) /\ ret.arg.offset = 0
          /\ Cardinality(MatchingDbCarts(ret.arg)) <= ret.arg.limit) =>
      \A c \in MatchingDbCarts(ret.arg) :
          \E k \in 1..Len(ret.res) : ret.res[k].id = c

\* The ids that the calls op have returned, in call order.
IssuedBy(op) == SelectSeq(issued, LAMBDA e : e.op = op)

Increasing(s) == \A a, b \in 1..Len(s) : a < b => s[a].id < s[b].id

(***************************************************************************)
(* C10.  Successive add calls on the item store yield strictly increasing  *)
(* ids, successive add_empty calls on the cart store yield strictly        *)
(* increasing ids, and the first id a store issues is 0, whatever other    *)
(* calls are interleaved.                                                  *)
(***************************************************************************)
C10_IncreasingFromZero ==
    \A op \in {"item_add", "cart_add_empty"} :
        /\ Increasing(IssuedBy(op))
        /\ IssuedBy(op) # <<>> => IssuedBy(op)[1].id = 0

(***************************************************************************)
(* C10, as the code has it.  The ids of successive add calls and of        *)
(* successive add_empty calls are strictly increasing whatever is          *)
(* interleaved.  In the in-memory store the two stores draw from one       *)
(* generator that starts at 0: the k-th call of add or add_empty, counted  *)
(* together, gets id k - 1, so only the store that is called first issues  *)
(* 0.  In the relational store the ids come from the engine, and the id   *)
(* issued into a store that is still empty is 1.                           *)
(***************************************************************************)
C10_IncreasingSharedGenerator ==
    /\ \A op \in {"item_add", "cart_add_empty"} : Increasing(IssuedBy(op))
    /\ InMemory => \A k \in 1..Len(issued) : issued[k].id = k - 1
    /\ (Hw45 /\ steps = 1 /\ issued # <<>>) => issued[1].id = 1

\* In the in-memory store add_empty, add and add_empty have been called in
\* this order with another call in between.
C10_Witness ==
    /\ InMemory
    /\ Len(issued) = 3
    /\ steps = 4
    /\ issued[1].op = "cart_add_empty"
    /\ issued[2].op = "item_add"
    /\ issued[3].op = "cart_add_empty"

(***************************************************************************)
(* C11.  add (items) and add_empty (carts) always allocate a new id: after *)
(* any sequence of calls, upsert at ids the caller chose and deletes       *)
(* included, the id they return is not the id of a record already in that  *)
(* store, so they never overwrite an existing item or cart.                *)
(***************************************************************************)
C11_AddAllocatesNewId ==
    [][/\ (ret'.op = "item_add" /\ ret'.res # IntegrityError) =>
            ~DictHas(ItemRows, ret'.res.id)
       /\ (ret'.op = "cart_add_empty" /\ ret'.res # IntegrityError) =>
            ret'.res.id \notin CartIdsNow]_vars

ShownWhenDeleted(items, carts, c, k) ==
    LET id == DictGet(carts, c).items[k].id IN
    cart_queries_get_one(item_queries_delete(items, id), carts, c).info.items[k].name

\* The last call was a cart request that carries lines.
CarriesLines(r) ==
    /\ r.op \in {"cart_update", "cart_upsert", "cart_patch"}
    /\ r.res # NoneEntity
    /\ r.arg.items # NoneItems

(***************************************************************************)
(* C13.  In the in-memory store the name shown for an unavailable line is  *)
(* the name carried in the request (update, upsert or patch) that created  *)
(* or last updated the line: a request with lines fixes the name every one *)
(* of its lines shows once its item is soft-deleted, and no other call     *)
(* (add_item on the cart, a patch without lines, a rename of the item)     *)
(* changes that name for a line the cart already had.                      *)
(***************************************************************************)
C13_UnavailableLineShowsRequestName ==
    [][InMemory =>
         IF CarriesLines(ret')
         THEN \A k \in 1..Len(ret'.arg.items) :
                ShownWhenDeleted(items_data', carts_data', ret'.id, k)
                  = ret'.arg.items[k].name
         ELSE \A c \in DictKeys(carts_data) \cap DictKeys(carts_data') :
                \A k \in 1..Len(DictGet(carts_data, c).items) :
                    ShownWhenDeleted(items_data', carts_data', c, k)
                      = ShownWhenDeleted(items_data, carts_data, c, k)]_vars

\* The number of stored lines of cart c; the relational store keeps the
\* lines as rows of cart_items.
StoredLineCount(c) ==
    IF InMemory THEN Len(DictGet(carts_data, c).items)
    ELSE Len(SelectSeq(db.cart_items, LAMBDA ci : ci.cart_id = c))

(***************************************************************************)
(* C14.  A cart patch request whose items field is present but is the      *)
(* empty list, converted by PatchCartRequest.as_patch_cart_info and        *)
(* applied by the store's patch, replaces the line set wholesale:          *)
(* afterwards the cart has zero lines and price 0.                         *)
(***************************************************************************)
C14_EmptyListPatchClearsCart ==
    (ret.op = "patch_cart" /\ ret.res # NoneEntity /\ ret.arg.items = <<>>) =>
      /\ StoredLineCount(ret.id) = 0
      /\ ret.res.info.items = <<>>
      /\ ret.res.info.price = 0

(***************************************************************************)
(* C15.  Cart patch on an existing cart, in either store: with no lines    *)
(* supplied it leaves the cart's line sequence (item ids, quantities,      *)
(* order) unchanged and returns the recomputed view; with lines supplied,  *)
(* the line sequence becomes exactly the supplied ids and quantities in    *)
(* the supplied order.  The lines of a cart are those get_one shows for    *)
(* it.                                                                     *)
(***************************************************************************)
C15_PatchKeepsOrReplacesLines ==
    [][(steps' # steps /\ ret'.op = "cart_patch" /\ ret'.id \in CartIdsNow) =>
         /\ ReturnsEntity(ret')
         /\ \A new \in LinesShown(items_data', carts_data', db', ret'.id)
                       \cup {IdsAndQuantities(ret'.res.info.items)} :
              IF ret'.arg.items = NoneItems
              THEN \A old \in LinesShown(items_data, carts_data, db, ret'.id) :
                     new = old
              ELSE new = IdsAndQuantities(ret'.arg.items)
         /\ ret'.res.info.price
              = AvailablePrice(ItemRows', ret'.res.info.items)]_vars

(***************************************************************************)
(* C16.  Cart update, patch and add_item on a cart id that does not exist  *)
(* report None and are all-or-nothing: the cart store and the item store   *)
(* are unchanged, no cart is created and no id is taken from the id        *)
(* generator.                                                              *)
(***************************************************************************)
C16_AbsentCartCallsChangeNothing ==
    [][(ret'.op \in {"cart_update", "cart_patch", "cart_add_item"}
          /\ ret'.id \notin CartIdsNow) =>
         /\ ret'.res = NoneEntity
         /\ UNCHANGED <<items_data, carts_data, db, id_generator>>]_vars

\* add_item has been refused on an absent cart while the stores hold an
\* item and another cart.
C16_Witness ==
    /\ ret.op = "cart_add_item"
    /\ ret.res = NoneEntity
    /\ ret.id \notin CartIdsNow
    /\ CartIdsNow # {}
    /\ DictKeys(ItemRows) # {}

\* The stored items of the in-memory store that pass the filters of q, in
\* store order.
MatchingItems(q) ==
    SelectSeq(items_data,
              LAMBDA i : /\ Within(i.price, q.min_price, q.max_price)
                         /\ (q.show_deleted \/ ~i.deleted))

(***************************************************************************)
(* C17.  In the in-memory store, item get_many(offset, limit, min_price,   *)
(* max_price, show_deleted) returns exactly the slice [offset, offset +    *)
(* limit) of the items, in the stable order of the store (insertion        *)
(* order), whose price lies within the inclusive bounds and which are not  *)
(* soft-deleted unless show_deleted is true; a listing without             *)
(* show_deleted never contains a soft-deleted item, and the result has at  *)
(* most limit entries.  Stated for a get_many whose generator is run to    *)
(* its end with no other store call in between, as the route handler runs  *)
(* it.                                                                     *)
(***************************************************************************)
C17_ItemGetManyFiltersThenSlices ==
    (InMemory /\ ret.op = "item_get_many" /\ ListedAtOnce(iter)) =>
      LET page == Slice(MatchingItems(ret.arg), ret.arg.offset, ret.arg.limit) IN
      /\ Len(ret.res) = Len(page)
      /\ Len(ret.res) <= ret.arg.limit
      /\ \A k \in 1..Len(page) :
           /\ ret.res[k].id = page[k].id
           /\ ret.res[k].info.name = page[k].name
           /\ ret.res[k].info.price = page[k].price
           /\ ret.res[k].info.deleted = page[k].deleted
           /\ ~ret.arg.show_deleted => ~ret.res[k].info.deleted

\* get_many with a lower price bound has returned the second of the two
\* stored items, whose price is the bound, the first being filtered out.
C17_Witness ==
    /\ InMemory
    /\ ret.op = "item_get_many"
    /\ ListedAtOnce(iter)
    /\ ret.arg.min_price # NoneNum
    /\ ret.arg.offset = 0
    /\ Len(items_data) = 2
    /\ Len(ret.res) = 1
    /\ ret.res[1].id = items_data[2].id
    /\ ret.res[1].info.price = ret.arg.min_price[1]

\* The records of rows and rows2 at the ids other than id are the same, in
\* the same order.
SameOtherRows(rows, rows2, id) ==
    SelectSeq(rows, LAMBDA r : r.id # id) = SelectSeq(rows2, LAMBDA r : r.id # id)

(***************************************************************************)
(* C18.  Item upsert(id, info) always succeeds: afterwards the store holds *)
(* at that id a record equal to the supplied name, price and deleted flag, *)
(* whether the id was absent, active or soft-deleted before, and every     *)
(* record at another id is unchanged.                                      *)
(***************************************************************************)
C18_UpsertStoresRecord ==
    [][(InMemory /\ ret'.op = "item_upsert") =>
         /\ ret'.res = ItemEntity(ret'.id, ret'.arg)
         /\ DictHas(items_data', ret'.id)
         /\ RowOf(items_data', ret'.id) = ItemRow(ret'.id, ret'.arg)
         /\ SameOtherRows(items_data, items_data', ret'.id)]_vars

\* upsert has overwritten the first of two records with an active record
\* of another name.
C18_Witness ==
    /\ InMemory
    /\ ret.op = "item_upsert"
    /\ Len(items_data) = 2
    /\ ret.id = items_data[1].id
    /\ ~ret.arg.deleted
    /\ items_data[1].name # items_data[2].name

(***************************************************************************)
(* C19.  Item delete(id) sets deleted = true on the record when the id is  *)
(* present and changes nothing else (name, price and all other records are *)
(* kept); when the id is absent it creates no record and raises no error;  *)
(* applying delete twice gives the same state as applying it once.         *)
(***************************************************************************)
C19_DeleteOnlySetsFlag ==
    [][ret'.op = "item_delete" =>
         /\ Len(ItemRows') = Len(ItemRows)
         /\ \A k \in 1..Len(ItemRows) :
              ItemRows'[k] = IF ItemRows[k].id = ret'.id
                             THEN [ItemRows[k] EXCEPT !.deleted = TRUE]
                             ELSE ItemRows[k]
         /\ UNCHANGED <<carts_data, id_generator>>
         /\ IF InMemory THEN UNCHANGED db
            ELSE UNCHANGED items_data /\ db' = [db EXCEPT !.items = db'.items]
         /\ item_queries_delete(items_data', ret'.id) = items_data'
         /\ item_delete(db', ret'.id) = db']_vars

\* delete has soft-deleted one of two items, the other being active.
C19_Witness ==
    /\ ret.op = "item_delete"
    /\ Len(ItemRows) = 2
    /\ SoftDeleted(ItemRows, ret.id)
    /\ \E id \in DictKeys(ItemRows) : Active(ItemRows, id)

(***************************************************************************)
(* C20.  Item patch on an active item overwrites only the supplied fields: *)
(* a field not supplied (name or price) keeps its previous value, the      *)
(* deleted flag and the id are never changed by patch, and no other item   *)
(* is changed.                                                             *)
(***************************************************************************)
C20_PatchOverwritesSuppliedFields ==
    [][(InMemory /\ ret'.op = "item_patch" /\ Active(items_data, ret'.id)) =>
         LET old == RowOf(items_data, ret'.id)
             new == RowOf(items_data', ret'.id)
         IN /\ ret'.res # NoneEntity
            /\ new.id = old.id
            /\ new.deleted = old.deleted
            /\ new.name = IF ret'.arg.name = NoneStr THEN old.name ELSE ret'.arg.name[1]
            /\ new.price = IF ret'.arg.price = NoneNum THEN old.price
                           ELSE ret'.arg.price[1]
            /\ ret'.res = ItemEntity(new.id, InfoOfRow(new))
            /\ Len(items_data') = Len(items_data)
            /\ SameOtherRows(items_data, items_data', ret'.id)]_vars

\* patch with a price and no name has returned the item with its old name
\* and the new price.
C20_Witness ==
    /\ InMemory
    /\ ret.op = "item_patch"
    /\ ret.res # NoneEntity
    /\ ret.arg.name = NoneStr
    /\ ret.arg.price # NoneNum
    /\ ret.res.info.name = "A"
    /\ ret.res.info.price = ret.arg.price[1]

\* view2 is view after item id was soft-deleted at price price: the same
\* lines at the same positions with the same quantities, the lines of id
\* unavailable, the others as available as before, and the price lower by
\* what the lines of id contributed.
SameLinesWithout(view, view2, id, price) ==
    /\ Len(view2.items) = Len(view.items)
    /\ \A k \in 1..Len(view.items) :
         /\ view2.items[k].id = view.items[k].id
         /\ view2.items[k].quantity = view.items[k].quantity
         /\ view2.items[k].available
              = (view.items[k].available /\ view.items[k].id # id)
    /\ view2.price = view.price
         - SumOf([k \in 1..Len(view.items) |-> price * view.items[k].quantity],
                 {k \in 1..Len(view.items) :
                    view.items[k].id = id /\ view.items[k].available})
    /\ SumQuantity(view2.items) = SumQuantity(view.items)

(***************************************************************************)
(* C21.  Soft-deleting an item leaves every cart's line sequence           *)
(* unchanged: the stored lines are the same, and in the views of every     *)
(* cart the lines referencing the item stay at the same position with the  *)
(* same quantity, become unavailable and contribute nothing to the price,  *)
(* the other lines are shown as before, and the summed quantity is the     *)
(* same.                                                                   *)
(***************************************************************************)
C21_DeleteKeepsCartLines ==
    [][(ret'.op = "item_delete" /\ DictHas(ItemRows, ret'.id)) =>
         /\ carts_data' = carts_data
         /\ db'.cart_items = db.cart_items /\ db'.carts = db.carts
         /\ \A c \in CartIdsNow :
              \A view2 \in CartViewsIn(items_data', carts_data', db', c) :
                \E view \in CartViewsNow(c) :
                  SameLinesWithout(view, view2, ret'.id,
                                   RowOf(ItemRows, ret'.id).price)]_vars

\* delete has soft-deleted the item of a line that the cart, as stored by
\* the last recalculation, held as available at a price above zero.
C21_Witness ==
    /\ InMemory
    /\ ret.op = "item_delete"
    /\ \E c \in DictKeys(carts_data) :
         LET row == DictGet(carts_data, c)
             view == cart_queries_get_one(items_data, carts_data, c).info
         IN /\ row.price > 0
            /\ Len(row.items) = 1
            /\ row.items[1].id = ret.id
            /\ row.items[1].available
            /\ ~view.items[1].available
            /\ view.items[1].quantity = row.items[1].quantity
            /\ view.price = 0

\* The view holds a line for item_id with that quantity and availability.
HasLine(view, item_id, quantity, available) ==
    \E k \in 1..Len(view.items) :
        /\ view.items[k].id = item_id
        /\ view.items[k].quantity = quantity
        /\ view.items[k].available = available

(***************************************************************************)
(* C22.  In the relational store, cart_add_item(cart_id, item_id) of an    *)
(* existing cart with an item_id that has no item row and no line yet      *)
(* succeeds, and the view it returns and the views of a later cart_get_one *)
(* hold a line for item_id with quantity 1 and available false.            *)
(***************************************************************************)
C22_MissingItemLineTolerated ==
    [][(/\ Hw45
        /\ ret'.op = "cart_add_item"
        /\ DictHas(db.carts, ret'.id)
        /\ ~DictHas(db.items, ret'.arg)
        /\ StoredLinesOf(ret'.id, ret'.arg) = 0) =>
         /\ ret'.res # IntegrityError
         /\ HasLine(ret'.res.info, ret'.arg, 1, FALSE)
         /\ \A view \in CartViews(backend, db', ret'.id) :
              HasLine(view, ret'.arg, 1, FALSE)]_vars

\* The same item id occurs in two lines of the list.
RepeatsAnItem(lines) ==
    \E a, b \in 1..Len(lines) : a # b /\ lines[a].id = lines[b].id

(***************************************************************************)
(* C23.  In the relational store, cart_update, cart_upsert and cart_patch  *)
(* given a line list in which the same item id occurs in two lines (every  *)
(* id being that of an item row) do not fail: they return a view, and the  *)
(* view holds as many lines for each item id as the list does.             *)
(***************************************************************************)
C23_RepeatedItemLinesStored ==
    (/\ Hw45
     /\ ret.op \in {"cart_update", "cart_upsert", "cart_patch"}
     /\ ret.res # NoneEntity
     /\ ret.arg.items # NoneItems
     /\ RepeatsAnItem(ret.arg.items)
     /\ \A k \in 1..Len(ret.arg.items) : DictHas(db.items, ret.arg.items[k].id)) =>
      /\ ret.res # IntegrityError
      /\ \A k \in 1..Len(ret.arg.items) :
           Len(ViewLinesOf(ret.res.info, ret.arg.items[k].id))
             = Len(SelectSeq(ret.arg.items, LAMBDA l : l.id = ret.arg.items[k].id))

\* The call of transaction t has returned an entity.
Succeeded(t) ==
    /\ txn[t].pc = "done"
    /\ txn[t].res # NoneEntity
    /\ txn[t].res # IntegrityError
    /\ txn[t].res # StaleDataError

\* t and u run the same store function on the same record.
SameCall(t, u, op) ==
    /\ t # u
    /\ txn[t].op = op /\ txn[u].op = op
    /\ txn[t].id = txn[u].id
    /\ txn[t].item_id = txn[u].item_id

(***************************************************************************)
(* C24.  In the relational store, when two cart_add_item calls for the     *)
(* same cart and the same item, each in its own transaction and            *)
(* interleaved in any way, have both returned a view, the quantity of the  *)
(* line is the quantity it had before the first of them began plus 2.      *)
(***************************************************************************)
C24_NoLostUpdate ==
    \A t, u \in Txns :
      (SameCall(t, u, "cart_add_item") /\ Succeeded(t) /\ Succeeded(u)) =>
        /\ HasLineRow(db, txn[t].id, txn[t].item_id)
        /\ LineRow(db, txn[t].id, txn[t].item_id).quantity
             = (IF txn[t].before < txn[u].before THEN txn[t].before
                ELSE txn[u].before) + 2

\* The rows the database holds at the id the call of t was given.
RowsAt(t) ==
    IF txn[t].op = "item_upsert"
    THEN SelectSeq(db.items, LAMBDA orm : orm.id = txn[t].id)
    ELSE SelectSeq(db.carts, LAMBDA c : c.id = txn[t].id)

\* The database holds the data of the upsert of t at its id.
HoldsDataOf(t) ==
    IF txn[t].op = "item_upsert"
    THEN RowsAt(t) = <<ItemRow(txn[t].id, txn[t].info)>>
    ELSE /\ Len(RowsAt(t)) = 1
         /\ SelectSeq(db.cart_items, LAMBDA ci : ci.cart_id = txn[t].id)
              = [k \in 1..Len(txn[t].info.items) |->
                   [cart_id |-> txn[t].id, item_id |-> txn[t].info.items[k].id,
                    quantity |-> txn[t].info.items[k].quantity]]

(***************************************************************************)
(* C25.  In the relational store, when two item_upsert calls, or two       *)
(* cart_upsert calls, for the same id that was absent before both began    *)
(* have ended, under whatever interleaving of their lookup and insert      *)
(* steps, both have returned an entity and the store holds exactly one     *)
(* record at that id, with the data of one of the two calls.               *)
(***************************************************************************)
C25_ConcurrentUpsertsSucceed ==
    \A t, u \in Txns : \A op \in {"item_upsert", "cart_upsert"} :
      (/\ SameCall(t, u, op)
       /\ txn[t].pc = "done" /\ txn[u].pc = "done"
       /\ txn[t].before = 0 \/ txn[u].before = 0
       /\ op = "cart_upsert" =>
            \A k \in 1..Len(txn[t].info.items) : DictHas(db.items, txn[t].info.items[k].id)
       /\ op = "cart_upsert" =>
            \A k \in 1..Len(txn[u].info.items) : DictHas(db.items, txn[u].info.items[k].id)) =>
        /\ Succeeded(t) /\ Succeeded(u)
        /\ HoldsDataOf(t) \/ HoldsDataOf(u)

(***************************************************************************)
(* C26.  The in-memory store and the relational store are interchangeable: *)
(* after the same sequence of item and cart calls with the same arguments  *)
(* on both, every call returns the same result under both, the same        *)
(* not-found outcome or the same entity with the same lines, availability, *)
(* names and price.                                                        *)
(***************************************************************************)
C26_StoresAgree ==
    ret.op # "init" => ret.res.mem = ret.res.rel

\* The cart stores that differ from carts in nothing but the stored price
\* of a cart (as stored, or 7) and the stored available flag of a line.
LineVariants(lines) ==
    {[j \in 1..Len(lines) |-> [lines[j] EXCEPT !.available = f[j]]] :
        f \in [1..Len(lines) -> BOOLEAN]}

CartVariants(row) ==
    {[row EXCEPT !.items = l, !.price = p] :
        l \in LineVariants(row.items), p \in {row.price, 7}}

RECURSIVE StoredVariants(_)
StoredVariants(carts) ==
    IF carts = <<>> THEN {<<>>}
    ELSE {<<row>> \o rest : row \in CartVariants(Head(carts)),
                            rest \in StoredVariants(Tail(carts))}

\* alt is one of the stores StoredVariants(carts).
IsStoredVariant(alt, carts) ==
    /\ Len(alt) = Len(carts)
    /\ \A k \in 1..Len(carts) : alt[k] \in CartVariants(carts[k])

\* Listings with and without each price bound.
PriceQueries ==
    {[offset |-> 0, limit |-> 2, min_price |-> lo, max_price |-> hi,
      min_quantity |-> NoneNum, max_quantity |-> NoneNum] :
        lo \in {NoneNum, Some(10)}, hi \in {NoneNum, Some(5)}}

(***************************************************************************)
(* C27.  The price stored in a cart record never influences what is        *)
(* displayed: two in-memory store states that differ only in the stored    *)
(* price and the stored available flags of cart records give the same      *)
(* result for get_one of every cart and for every get_many, and the same   *)
(* result and the same stored lines after patch without lines or add_item, *)
(* so that every later call agrees as well.                                *)
(***************************************************************************)
C27_StoredPriceNotDisplayed ==
    InMemory =>
      /\ \A c \in CartScope.cartIds :
           LET none == [items |-> NoneItems, price |-> NoneNum]
               one == cart_queries_get_one(items_data, carts_data, c)
               patched == cart_queries_patch(items_data, carts_data, c, none)
           IN \A alt \in StoredVariants(carts_data) :
                /\ cart_queries_get_one(items_data, alt, c) = one
                /\ LET r == cart_queries_patch(items_data, alt, c, none) IN
                   r.res = patched.res /\ IsStoredVariant(r.carts, patched.carts)
      /\ \A c \in CartScope.cartIds, i \in CartScope.lineIds :
           LET added == cart_queries_add_item(items_data, carts_data, c, i) IN
           \A alt \in StoredVariants(carts_data) :
             LET r == cart_queries_add_item(items_data, alt, c, i) IN
             r.res = added.res /\ IsStoredVariant(r.carts, added.carts)
      /\ \A q \in PriceQueries :
           LET listed == cart_queries_get_many(items_data, carts_data, q) IN
           \A alt \in StoredVariants(carts_data) :
             cart_queries_get_many(items_data, alt, q) = listed

\* get_many has listed a cart whose stored price is not the price shown and
\* one of whose lines is stored as available and shown as unavailable.
C27_Witness ==
    /\ InMemory
    /\ ret.op = "cart_get_many"
    /\ ListedAtOnce(iter)
    /\ Len(ret.res) = 1
    /\ DictGet(carts_data, ret.res[1].id).price # ret.res[1].info.price
    /\ \E k \in 1..Len(ret.res[1].info.items) :
         /\ DictGet(carts_data, ret.res[1].id).items[k].available
         /\ ~ret.res[1].info.items[k].available

(***************************************************************************)
(* C28.  In the in-memory store, a view returned by patch or add_item      *)
(* shares nothing with the store: a later add_item, patch or update on the *)
(* same cart leaves the lines, quantities and price of the view the caller *)
(* holds as they were, and a write of the caller into that view leaves the *)
(* stored carts as they were.                                              *)
(***************************************************************************)
C28_ReturnedViewIsFresh ==
    [][held.op \in {"cart_patch", "cart_add_item"} =>
         /\ (/\ steps' # steps
             /\ ret'.op \in {"cart_add_item", "cart_patch", "cart_update"}
             /\ ret'.id = held.entity.id) => held'.entity = held.entity
         /\ (steps' = steps /\ held'.entity # held.entity) =>
              carts_data' = carts_data]_vars

\* The operations of the cart store, by the name their call is recorded under.
CartStoreOps ==
    {"cart_add_empty", "cart_get_one", "cart_get_many", "cart_update",
     "cart_upsert", "cart_patch", "cart_add_item", "cart_delete"}

(***************************************************************************)
(* C29.  No cart store operation (add_empty, get_one, get_many, update,    *)
(* upsert, patch, add_item, delete) changes the item store: the item       *)
(* records, with their ids, names, prices and deleted flags, are the same  *)
(* before and after, also when add_item names an item id that does not     *)
(* exist.  A get_many is the call that returns the generator and every     *)
(* next() on it.                                                           *)
(***************************************************************************)
C29_CartOpsKeepItemStore ==
    [][((steps' # steps /\ ret'.op \in CartStoreOps)
          \/ GetManyStep("cart_get_many")) =>
         /\ items_data' = items_data
         /\ db'.items = db.items]_vars

\* add_item has put a line for an item id that has no record into a cart of
\* the in-memory store, whose item store holds another item.
C29_Witness ==
    /\ InMemory
    /\ ret.op = "cart_add_item"
    /\ ret.res # NoneEntity
    /\ items_data # <<>>
    /\ ~DictHas(items_data, ret.arg)
    /\ \E k \in 1..Len(ret.res.info.items) :
         /\ ret.res.info.items[k].id = ret.arg
         /\ ~ret.res.info.items[k].available

(***************************************************************************)
(* C30.  In the in-memory store, every successful add_item raises the      *)
(* summed line quantity of the cart by exactly 1 and changes the quantity  *)
(* of at most one line: when the stored lines hold the item id, in one     *)
(* line or in several, only the first such line in stored order is         *)
(* incremented and no line is appended; otherwise one line of quantity 1   *)
(* is appended and the others keep their id and quantity.                  *)
(***************************************************************************)
C30_AddItemAddsOneToOneLine ==
    [][(InMemory /\ ret'.op = "cart_add_item" /\ ret'.res # NoneEntity) =>
         LET old == IdsAndQuantities(DictGet(carts_data, ret'.id).items)
             new == IdsAndQuantities(DictGet(carts_data', ret'.id).items)
             shown == IdsAndQuantities(ret'.res.info.items)
             with == {k \in 1..Len(old) : old[k][1] = ret'.arg}
         IN /\ shown = new
            /\ QuantityOf(DictGet(carts_data', ret'.id).items)
                 = QuantityOf(DictGet(carts_data, ret'.id).items) + 1
            /\ IF with = {}
               THEN new = Append(old, <<ret'.arg, 1>>)
               ELSE LET first == CHOOSE k \in with : \A j \in with : k <= j
                    IN /\ Len(new) = Len(old)
                       /\ \A k \in 1..Len(old) :
                            new[k] = IF k = first
                                     THEN <<old[k][1], old[k][2] + 1>>
                                     ELSE old[k]]_vars

\* add_item has incremented the first of two stored lines of the same item
\* and left the second as it was.
C30_Witness ==
    /\ InMemory
    /\ ret.op = "cart_add_item"
    /\ ret.res # NoneEntity
    /\ LET lines == DictGet(carts_data, ret.id).items
       IN /\ Len(lines) = 2
          /\ lines[1].id = ret.arg
          /\ lines[2].id = ret.arg
          /\ lines[1].quantity = 3
          /\ lines[2].quantity = 2

====
